---- MODULE Spec2Model ----
(***************************************************************************)
(* Order status workflow and webhook delivery of the order-processing     *)
(* back office (backend/src/routes/orders.ts, routes/webhooks.ts,         *)
(* services/webhook.service.ts).                                          *)
(*                                                                         *)
(* Every request handler is a chain of atomic steps, one per stretch of    *)
(* code between two awaits: Node runs such a stretch without interleaving, *)
(* and other requests run between stretches.  Strings are sequences of     *)
(* tokens, so that concatenation, trimming, joining, splitting and         *)
(* substring matching are computed, not assumed.                           *)
(***************************************************************************)
EXTENDS Integers, Sequences, FiniteSets, TLC

(* ------------------------------ bounds -------------------------------- *)

\* Requests started in one behaviour of the order endpoints; the clock ticks
\* once per request.
MaxRequests == 1
\* Orders the store may hold (seeded ones and those POST /orders adds).
MaxOrders == 3
\* Requests that send webhooks in one run of the delivery history.
MaxSends == 3
\* Subscriptions created in one behaviour.
MaxHooks == 1

(* ------------------------------ strings ------------------------------- *)

\* null and undefined of a string-typed field.
Null == <<"<null>">>
Undef == <<"<undefined>">>
\* typeof v !== 'undefined' for a status-typed request field.
UndefStatus == "<undefined>"
\* statusCode: number | null
NullCode == 0
\* A body without the events field.
UndefList == <<Undef>>
\* The body of a request that carries none of url, secret, events, isActive.
NoBody == [url |-> Undef, secret |-> Undef, events |-> UndefList, isActive |-> "<undefined>"]


\* String.prototype.trim over token strings: the blank token is " ".
RECURSIVE TrimLeft(_)
TrimLeft(s) ==
    IF s # <<>> /\ Head(s) = " " THEN TrimLeft(Tail(s)) ELSE s

RECURSIVE TrimRight(_)
TrimRight(s) ==
    IF s # <<>> /\ s[Len(s)] = " " THEN TrimRight(SubSeq(s, 1, Len(s) - 1)) ELSE s

Trim(s) == TrimRight(TrimLeft(s))

\* notes?.trim() || null
NotesValue(notes) ==
    IF notes = Null \/ notes = Undef \/ Trim(notes) = <<>> THEN Null ELSE Trim(notes)

\* Array.prototype.includes
includes(list, x) == \E i \in 1..Len(list) : list[i] = x

\* s contains part as a contiguous substring: SQL  s LIKE '%part%'.
Like(s, part) ==
    \E i \in 0..(Len(s) - Len(part)) : SubSeq(s, i + 1, i + Len(part)) = part

\* TypeORM simple-array: the list is stored joined by commas ...
RECURSIVE simpleArrayToString(_)
simpleArrayToString(list) ==
    IF list = <<>> THEN <<>>
    ELSE IF Len(list) = 1 THEN list[1]
    ELSE list[1] \o <<",">> \o simpleArrayToString(Tail(list))

\* ... and read back by splitting the stored string at every comma.
RECURSIVE SplitAt(_, _)
SplitAt(s, cur) ==
    IF s = <<>> THEN <<cur>>
    ELSE IF Head(s) = "," THEN <<cur>> \o SplitAt(Tail(s), <<>>)
    ELSE SplitAt(Tail(s), Append(cur, Head(s)))

stringToSimpleArray(s) == IF Len(s) > 0 THEN SplitAt(s, <<>>) ELSE <<>>

(* --------------------------- status machine --------------------------- *)

OrderStatus ==
    {"PENDING", "CONFIRMED", "PROCESSING", "SHIPPED", "DELIVERED", "CANCELLED"}

\* A transition table with one more edge, SHIPPED -> CANCELLED.
STATUS_TRANSITIONS_Loose ==
    [s \in OrderStatus |->
        CASE s = "PENDING" -> <<"CONFIRMED", "CANCELLED">>
          [] s = "CONFIRMED" -> <<"PROCESSING", "CANCELLED">>
          [] s = "PROCESSING" -> <<"SHIPPED", "CANCELLED">>
          [] s = "SHIPPED" -> <<"DELIVERED", "CANCELLED">>
          [] s = "DELIVERED" -> <<>>
          [] s = "CANCELLED" -> <<>>]

STATUS_TRANSITIONS ==
    [s \in OrderStatus |->
        CASE s = "PENDING" -> <<"CONFIRMED", "CANCELLED">>
          [] s = "CONFIRMED" -> <<"PROCESSING", "CANCELLED">>
          [] s = "PROCESSING" -> <<"SHIPPED", "CANCELLED">>
          [] s = "SHIPPED" -> <<"DELIVERED">>
          [] s = "DELIVERED" -> <<>>
          [] s = "CANCELLED" -> <<>>]

isOrderStatus(value) == value \in OrderStatus

canTransition(from, to) == includes(STATUS_TRANSITIONS[from], to)

\* `order.status.${status}`
EventOf(status) == <<"order.status.", status>>

(* ------------------------------- state -------------------------------- *)

VARIABLES
    orders,          \* table orders: a sequence, the order with id i at index i
    subs,            \* table webhook_subscriptions: a set of rows
    deliveries,      \* table webhook_deliveries: a set of rows
    nextSubId,       \* the subscription id sequence
    nextDeliveryId,  \* the delivery id sequence
    reqs,            \* per request slot: the handler in flight, its locals and response
    dispatches,      \* the sendAndRecordDelivery calls in flight
    clock            \* the wall clock, one tick per request

vars == <<orders, subs, deliveries, nextSubId, nextDeliveryId, reqs, dispatches, clock>>
storeVars == <<orders, subs, deliveries, nextSubId, nextDeliveryId>>

\* Request slots: requests in different slots interleave at their awaits.
AllSlots == {1, 2}

(* ------------------------- seeded reference data ---------------------- *)

\* seed(): prices in cents, stock quantities.
Products ==
    [id \in {1, 2} |->
        IF id = 1 THEN [price |-> 2999, stockQuantity |-> 150]
                  ELSE [price |-> 8999, stockQuantity |-> 75]]

Customers == {1, 2}

NoOrder ==
    [id |-> 0, customerId |-> 0, status |-> UndefStatus, notes |-> Null,
     items |-> <<>>, totalAmount |-> 0]

\* One order as seed() leaves it: any status, one line item, its total.
SeedOrder(id, status) ==
    [id |-> id, customerId |-> 1, status |-> status, notes |-> Null,
     items |-> <<[productId |-> 2, quantity |-> 1, unitPrice |-> 8999, lineTotal |-> 8999]>>,
     totalAmount |-> 8999]

\* orderRepo.findOne({ where: { id } }): the row, or NoOrder for null.
FindOrder(id) == IF id \in 1..Len(orders) THEN orders[id] ELSE NoOrder

(* ---------------------------- subscriptions --------------------------- *)

\* A row of webhook_subscriptions; events is the simple-array column.
SubRow(id, url, secret, eventList, isActive) ==
    [id |-> id, url |-> url, secret |-> secret,
     events |-> simpleArrayToString(eventList), isActive |-> isActive]

\* Event lists a subscriber may register.
AllEvents ==
    <<EventOf("PENDING"), EventOf("CONFIRMED"), EventOf("PROCESSING"),
      EventOf("SHIPPED"), EventOf("DELIVERED"), EventOf("CANCELLED")>>
\* Every event but order.status.CANCELLED.
OpenEvents == SubSeq(AllEvents, 1, 5)
\* Every event name with a suffix: each real event is a prefix of one of these.
SuffixedEvents == [i \in 1..Len(AllEvents) |-> AllEvents[i] \o <<"_V2">>]
\* Every event name inside a longer name: each real event is a substring.
NestedEvents == [i \in 1..Len(AllEvents) |-> <<"x.">> \o AllEvents[i] \o <<".y">>]
LateEvents == <<EventOf("SHIPPED"), EventOf("DELIVERED")>>

\* The subscription table the order endpoints are exercised against:
\* 1 is active and lists every event but CANCELLED; 2 is active and lists
\* SHIPPED and DELIVERED, and longer names around every event; 3 lists every
\* event and is inactive.
SeedSubs ==
    { SubRow(1, <<"http://a">>, <<"k1">>, OpenEvents, TRUE),
      SubRow(2, <<"http://b">>, <<"k2">>, SuffixedEvents \o NestedEvents \o LateEvents, TRUE),
      SubRow(3, <<"http://c">>, <<"k3">>, AllEvents, FALSE) }

\* subscriptionRepo.findOne({ where: { id } }) as a set: empty for null.
FindSub(id) == {s \in subs : s.id = id}

(* ------------------------- the HTTP client (axios) -------------------- *)

\* What axios.post can do with validateStatus: () => true.  data is the parsed
\* response body: a string, a structured value, or null/undefined.
StringData(text) == [type |-> "string", text |-> text]
ObjectData(text) == [type |-> "object", text |-> text]
NoData == [type |-> "null", text |-> <<>>]

\* The call resolves with a response.
Resolved(status, data) ==
    [kind |-> "response", hasResponse |-> TRUE, status |-> status, data |-> data,
     message |-> <<>>]
\* The call rejects with an AxiosError that carries no response (refused, DNS, timeout).
AxiosFailure(message) ==
    [kind |-> "axios", hasResponse |-> FALSE, status |-> NullCode, data |-> NoData,
     message |-> message]
\* The call rejects with an AxiosError that carries the response it came from.
AxiosResponseFailure(status, data, message) ==
    [kind |-> "axios", hasResponse |-> TRUE, status |-> status, data |-> data,
     message |-> message]
\* The call rejects with another Error.
PlainError(message) ==
    [kind |-> "error", hasResponse |-> FALSE, status |-> NullCode, data |-> NoData,
     message |-> message]
\* The call rejects with a value that is no Error.
Thrown ==
    [kind |-> "thrown", hasResponse |-> FALSE, status |-> NullCode, data |-> NoData,
     message |-> <<>>]

\* JSON.stringify of a structured value: its text in braces.
JSONstringify(data) == <<"{">> \o data.text \o <<"}">>

\* A catch block that leaves statusCode null whatever the error carries.
ServiceOutcome_NullOnThrow(o) ==
    IF o.kind = "response" THEN
        [statusCode |-> o.status,
         responseBody |-> IF o.data.type = "string" THEN o.data.text ELSE JSONstringify(o.data),
         success |-> (o.status >= 200 /\ o.status < 300)]
    ELSE
        [statusCode |-> NullCode,
         responseBody |-> IF o.kind = "thrown" THEN <<"Unknown webhook delivery error">>
                          ELSE IF o.hasResponse /\ o.data.type = "string" THEN o.data.text
                          ELSE IF o.hasResponse /\ o.data.type # "null" THEN JSONstringify(o.data)
                          ELSE o.message,
         success |-> FALSE]

\* webhook.service.ts, sendAndRecordDelivery, the try block and the catch block:
\* statusCode, responseBody, success from the outcome of axios.post.
ServiceOutcome(o) ==
    IF o.kind = "response" THEN
        [statusCode |-> o.status,
         responseBody |-> IF o.data.type = "string" THEN o.data.text ELSE JSONstringify(o.data),
         success |-> (o.status >= 200 /\ o.status < 300)]
    ELSE IF o.kind = "axios" THEN
        [statusCode |-> IF o.hasResponse THEN o.status ELSE NullCode,
         responseBody |->
            IF o.hasResponse /\ o.data.type = "string" THEN o.data.text
            ELSE IF o.hasResponse /\ o.data.type # "null" THEN JSONstringify(o.data)
            ELSE o.message,
         success |-> FALSE]
    ELSE IF o.kind = "error" THEN
        [statusCode |-> NullCode, responseBody |-> o.message, success |-> FALSE]
    ELSE
        [statusCode |-> NullCode, responseBody |-> <<"Unknown webhook delivery error">>,
         success |-> FALSE]

\* A route copy whose success test lets the status 300 through.
RouteOutcome_SuccessTo300(o) ==
    IF o.kind = "response" THEN
        [statusCode |-> o.status,
         responseBody |-> IF o.data.type = "string" THEN o.data.text ELSE JSONstringify(o.data),
         success |-> (o.status >= 200 /\ o.status <= 300)]
    ELSE
        [statusCode |-> IF o.kind = "axios" /\ o.hasResponse THEN o.status ELSE NullCode,
         responseBody |-> IF o.kind = "thrown" THEN <<"Unknown webhook delivery error">>
                          ELSE IF o.hasResponse /\ o.data.type = "string" THEN o.data.text
                          ELSE IF o.hasResponse /\ o.data.type # "null" THEN JSONstringify(o.data)
                          ELSE o.message,
         success |-> FALSE]

\* routes/webhooks.ts, its own copy of sendAndRecordDelivery: undefined for the
\* unset values, turned into null by  ?? null  when the row is built.
RouteOutcome(o) ==
    IF o.kind = "response" THEN
        [statusCode |-> o.status,
         responseBody |-> IF o.data.type = "string" THEN o.data.text ELSE JSONstringify(o.data),
         success |-> (o.status >= 200 /\ o.status < 300)]
    ELSE IF o.kind = "axios" THEN
        [statusCode |-> IF o.hasResponse THEN o.status ELSE NullCode,
         responseBody |->
            IF o.hasResponse /\ o.data.type = "string" THEN o.data.text
            ELSE IF o.hasResponse /\ o.data.type # "null" THEN JSONstringify(o.data)
            ELSE o.message,
         success |-> FALSE]
    ELSE IF o.kind = "error" THEN
        [statusCode |-> NullCode, responseBody |-> o.message, success |-> FALSE]
    ELSE
        [statusCode |-> NullCode, responseBody |-> <<"Unknown webhook delivery error">>,
         success |-> FALSE]

\* Endpoint behaviours the order endpoints are exercised against.
BasicOutcomes ==
    { Resolved(200, StringData(<<"ok">>)),
      Resolved(500, ObjectData(<<"error">>)),
      AxiosFailure(<<"connect ECONNREFUSED">>) }

(* ----------------------------- dispatches ----------------------------- *)

NoOutcome == [statusCode |-> NullCode, responseBody |-> Null, success |-> FALSE]

\* JSON.stringify(payload): the text of the payload object.
PayloadJSON(payload) == [json |-> payload]

\* crypto.createHmac('sha256', key).update(text).digest('hex'): the digest, a
\* value that tells which key and which text it was made of and nothing else.
createHmac(key, text) == [hmac |-> "sha256", key |-> key, text |-> text]

\* A signature over the data of the payload alone.
signPayload_DataOnly(payload, secret) == createHmac(secret, PayloadJSON(payload.data))

signPayload(payload, secret) == createHmac(secret, PayloadJSON(payload))

\* axios.post(subscription.url, payload, { headers, validateStatus }): the
\* request on the wire; axios sends the payload as its JSON text.
PostRequest(subscription, payload) ==
    [url |-> subscription.url,
     headers |-> ("Content-Type" :> [text |-> "application/json"])
                 @@ ("X-Webhook-Signature" :>
                        [text |-> "sha256=", hex |-> signPayload(payload, subscription.secret)]),
     body |-> PayloadJSON(payload)]

\* One call of sendAndRecordDelivery(subscription, payload, attemptNumber) that has
\* issued its POST.  owner is the request slot whose handler awaits it.
NewDispatch(owner, copy, subscription, payload, attemptNumber) ==
    [owner |-> owner, copy |-> copy, subscription |-> subscription, payload |-> payload,
     attemptNumber |-> attemptNumber, request |-> PostRequest(subscription, payload),
     pc |-> "posting", got |-> Thrown, outcome |-> NoOutcome, recordId |-> 0]

DispatchesOf(r) == {d \in dispatches : d.owner = r}
InFlight(d) == d.pc \in {"posting", "saving"}

(* ------------------------------ requests ------------------------------ *)

\* A free request slot.  The fields are the handler's locals (id, status, notes,
\* orderIds/idx of the bulk loop, order, previousStatus, succeeded, failed), what
\* it has done so far (saved; before, the stored status its last save replaced;
\* triggers, its calls of triggerWebhooks), the body of a subscription
\* request, and its response (code, error, the
\* order in result or the id of the delivery row in delivery).
Idle ==
    [kind |-> "idle", pc |-> "idle", id |-> 0, status |-> UndefStatus, notes |-> Undef,
     orderIds |-> <<>>, idx |-> 0, order |-> NoOrder, previousStatus |-> UndefStatus,
     succeeded |-> <<>>, failed |-> <<>>, saved |-> FALSE, before |-> UndefStatus,
     triggers |-> <<>>,
     body |-> NoBody,
     code |-> 0, error |-> <<>>, result |-> NoOrder, delivery |-> 0]

\* res.status(code).json({ error })
Fail(req, code, error) == [req EXCEPT !.pc = "done", !.code = code, !.error = error]

CanStart(r) == reqs[r].pc = "idle"

\* A handler that answers 400 for an illegal transition and carries on as if
\* the transition were legal.
RejectTransition_FallsThrough(req, order) ==
    [req EXCEPT !.pc = "save", !.previousStatus = order.status,
                !.order = [order EXCEPT !.status = req.status], !.code = 400]

\* if (!canTransition(order.status, status)) { res.status(400).json(...); return; }
RejectTransition(req, order) ==
    Fail([req EXCEPT !.order = order], 400,
         <<"Invalid status transition: ", order.status, " -> ", req.status>>)

\* PATCH /api/orders/:id/status up to its first write: validate the body, load the
\* order, check the transition, set order.status.
StartChangeStatus(r, id, status) ==
    /\ CanStart(r)
    /\ clock' = clock + 1
    /\ LET req == [Idle EXCEPT !.kind = "status", !.id = id, !.status = status]
           order == FindOrder(id)
       IN reqs' = [reqs EXCEPT ![r] =
            IF status = UndefStatus \/ ~isOrderStatus(status)
                THEN Fail(req, 400, <<"Valid status is required">>)
            ELSE IF order = NoOrder
                THEN Fail(req, 404, <<"Order not found">>)
            ELSE IF ~canTransition(order.status, status)
                THEN RejectTransition(req, order)
            ELSE [req EXCEPT !.pc = "save", !.previousStatus = order.status,
                             !.order = [order EXCEPT !.status = status]]]
    /\ UNCHANGED <<storeVars, dispatches>>

\* A PATCH /orders/:id that calls triggerWebhooks whenever the body carries a status.
SaveOrder_TriggersOnStatus(r) ==
    /\ reqs[r].pc = "save"
    /\ LET req == reqs[r]
           fires == \/ req.kind \in {"status", "bulk"}
                    \/ /\ req.kind = "patch"
                       /\ req.status # UndefStatus
       IN /\ orders' = [orders EXCEPT ![req.order.id] = req.order]
          /\ reqs' = [reqs EXCEPT ![r] =
                [req EXCEPT !.saved = TRUE,
                            !.before = orders[req.order.id].status,
                            !.succeeded = IF req.kind = "bulk"
                                          THEN Append(@, req.order.id) ELSE @,
                            !.pc = IF fires THEN "trigger" ELSE "respond"]]
    /\ UNCHANGED <<subs, deliveries, nextSubId, nextDeliveryId, dispatches, clock>>

\* await orderRepo.save(order): the row takes the entity's status and notes.
\* Then the handler either calls triggerWebhooks or goes on to its response.
SaveOrder(r) ==
    /\ reqs[r].pc = "save"
    /\ LET req == reqs[r]
           fires == \/ req.kind \in {"status", "bulk"}
                    \/ /\ req.kind = "patch"
                       /\ req.status # UndefStatus
                       /\ req.status # req.previousStatus
       IN /\ orders' = [orders EXCEPT ![req.order.id] = req.order]
          /\ reqs' = [reqs EXCEPT ![r] =
                [req EXCEPT !.saved = TRUE,
                            !.before = orders[req.order.id].status,
                            !.succeeded = IF req.kind = "bulk"
                                          THEN Append(@, req.order.id) ELSE @,
                            !.pc = IF fires THEN "trigger" ELSE "respond"]]
    /\ UNCHANGED <<subs, deliveries, nextSubId, nextDeliveryId, dispatches, clock>>

\* The LIKE pre-filter alone: what the query of triggerWebhooks returns.
LikeSubscriptions(event) ==
    {s \in subs : s.isActive /\ Like(s.events, event)}

\* The query's result used as it is, without the exact filter.
matchingSubscriptions_NoFilter(event) == LikeSubscriptions(event)

\* triggerWebhooks: the active subscriptions the query returns, filtered by
\* subscription.events.includes(event) on the loaded array.
matchingSubscriptions(event) ==
    {s \in LikeSubscriptions(event) : includes(stringToSimpleArray(s.events), event)}

\* { event, orderId, data: payload, timestamp: new Date().toISOString() }
WebhookPayload(event, orderId, data) ==
    [event |-> event, orderId |-> orderId, data |-> data, timestamp |-> clock]

\* previousStatus read after order.status has been assigned.
TriggerData_AfterChange(req) ==
    [previousStatus |-> req.order.status, status |-> req.status, order |-> req.order]

\* { previousStatus, status, order: updated }
TriggerData(req) ==
    [previousStatus |-> req.previousStatus, status |-> req.status, order |-> req.order]

\* triggerWebhooks(order.id, `order.status.${status}`, { previousStatus, status,
\* order: updated }): query the subscriptions and start one sendAndRecordDelivery
\* per match, attempt 1; Promise.all then awaits them.
Trigger(r) ==
    /\ reqs[r].pc = "trigger"
    /\ LET req == reqs[r]
           event == EventOf(req.status)
           data == TriggerData(req)
           call == [event |-> event, orderId |-> req.order.id, data |-> data,
                    afterSave |-> req.saved, persisted |-> FindOrder(req.order.id).status,
                    subsSeen |-> subs, rowsBefore |-> deliveries, rowsAfter |-> {},
                    returned |-> FALSE, inFlightAtReturn |-> {}, unrecorded |-> {}]
       IN /\ dispatches' = dispatches \cup
                { NewDispatch(r, "service", s, WebhookPayload(event, req.order.id, data), 1)
                    : s \in matchingSubscriptions(event) }
          /\ reqs' = [reqs EXCEPT ![r] =
                [req EXCEPT !.pc = "fanout", !.triggers = Append(@, call)]]
    /\ UNCHANGED <<storeVars, clock>>

\* The awaited axios.post settles with outcome o; the code after it computes
\* statusCode, responseBody and success, builds the row and calls save.
DispatchSettle(d, o) ==
    /\ d \in dispatches
    /\ d.pc = "posting"
    /\ dispatches' = (dispatches \ {d}) \cup
            {[d EXCEPT !.pc = "saving", !.got = o,
                       !.outcome = IF d.copy = "service" THEN ServiceOutcome(o)
                                                         ELSE RouteOutcome(o)]}
    /\ UNCHANGED <<storeVars, reqs, clock>>

\* A retry stored under the id of the latest row, where save updates.
DeliveryRow_ReusesLastId(d) ==
    [id |-> IF d.attemptNumber > 1 THEN nextDeliveryId - 1 ELSE nextDeliveryId,
     subscriptionId |-> d.subscription.id,
     orderId |-> d.payload.orderId, event |-> d.payload.event, payload |-> d.payload,
     statusCode |-> d.outcome.statusCode, responseBody |-> d.outcome.responseBody,
     success |-> d.outcome.success, attemptNumber |-> d.attemptNumber,
     deliveredAt |-> clock]

\* The row deliveryRepo.save inserts for dispatch d.
DeliveryRow(d) ==
    [id |-> nextDeliveryId, subscriptionId |-> d.subscription.id,
     orderId |-> d.payload.orderId, event |-> d.payload.event, payload |-> d.payload,
     statusCode |-> d.outcome.statusCode, responseBody |-> d.outcome.responseBody,
     success |-> d.outcome.success, attemptNumber |-> d.attemptNumber,
     deliveredAt |-> clock]

\* An insert that, for a failed delivery, cancels the other calls its
\* fan-out still has in flight.
DispatchSave_CancelsOthers(d) ==
    /\ d \in dispatches
    /\ d.pc = "saving"
    /\ LET ok == FindSub(d.subscription.id) # {}
           after == [d EXCEPT !.pc = IF ok THEN "saved" ELSE "rejected",
                              !.recordId = IF ok THEN nextDeliveryId ELSE 0]
       IN /\ deliveries' = IF ok THEN deliveries \cup {DeliveryRow(d)} ELSE deliveries
          /\ nextDeliveryId' = IF ok THEN nextDeliveryId + 1 ELSE nextDeliveryId
          /\ dispatches' =
                (IF d.outcome.success THEN dispatches \ {d}
                 ELSE {x \in dispatches : x.owner # d.owner \/ ~InFlight(x)}) \cup {after}
    /\ UNCHANGED <<orders, subs, nextSubId, reqs, clock>>

\* deliveryRepo.save(delivery): the insert.  subscriptionId is a foreign key
\* (ManyToOne, onDelete CASCADE): with the subscription gone the insert fails
\* and the call rejects.
DispatchSave(d) ==
    /\ d \in dispatches
    /\ d.pc = "saving"
    /\ LET ok == FindSub(d.subscription.id) # {}
           after == [d EXCEPT !.pc = IF ok THEN "saved" ELSE "rejected",
                              !.recordId = IF ok THEN nextDeliveryId ELSE 0]
       IN /\ deliveries' = IF ok THEN deliveries \cup {DeliveryRow(d)} ELSE deliveries
          /\ nextDeliveryId' = IF ok THEN nextDeliveryId + 1 ELSE nextDeliveryId
          /\ dispatches' = (dispatches \ {d}) \cup {after}
    /\ UNCHANGED <<orders, subs, nextSubId, reqs, clock>>

\* A fan-out that treats a failed delivery as its own failure.
FanoutResolve_FailsOnFailure(r) ==
    /\ reqs[r].pc = "fanout"
    /\ \A d \in DispatchesOf(r) : d.pc = "saved"
    /\ LET req == reqs[r]
           n == Len(req.triggers)
           failed == \E d \in DispatchesOf(r) : ~d.outcome.success
       IN reqs' = [reqs EXCEPT ![r] =
            [req EXCEPT !.pc = IF failed THEN "done"
                               ELSE IF req.kind = "bulk" THEN "bulk" ELSE "respond",
                        !.code = IF failed THEN 500 ELSE @,
                        !.triggers[n].rowsAfter = deliveries,
                        !.triggers[n].returned = TRUE]]
    /\ dispatches' = dispatches \ DispatchesOf(r)
    /\ UNCHANGED <<storeVars, clock>>

\* Promise.all resolves: every call of the fan-out has saved its row.
\* triggerWebhooks returns and the handler goes on.
FanoutResolve(r) ==
    /\ reqs[r].pc = "fanout"
    /\ \A d \in DispatchesOf(r) : d.pc = "saved"
    /\ LET req == reqs[r]
           n == Len(req.triggers)
       IN reqs' = [reqs EXCEPT ![r] =
            [req EXCEPT !.pc = IF req.kind = "bulk" THEN "bulk" ELSE "respond",
                        !.triggers[n].rowsAfter = deliveries,
                        !.triggers[n].returned = TRUE]]
    /\ dispatches' = dispatches \ DispatchesOf(r)
    /\ UNCHANGED <<storeVars, clock>>

\* Promise.all rejects as soon as one call has rejected: triggerWebhooks throws,
\* the handler's catch hands the error to errorHandler, which answers 500.  The
\* other calls of the fan-out keep running.
FanoutReject(r) ==
    /\ reqs[r].pc = "fanout"
    /\ \E d \in DispatchesOf(r) : d.pc = "rejected"
    /\ LET req == reqs[r]
           n == Len(req.triggers)
       IN reqs' = [reqs EXCEPT ![r] =
            [Fail(req, 500, <<"violates foreign key constraint">>)
                EXCEPT !.triggers[n].rowsAfter = deliveries,
                       !.triggers[n].returned = TRUE,
                       !.triggers[n].inFlightAtReturn =
                            {d.subscription.id : d \in {x \in DispatchesOf(r) : InFlight(x)}},
                       !.triggers[n].unrecorded =
                            {d.subscription.id : d \in {x \in DispatchesOf(r) : x.pc = "rejected"}}]]
    /\ dispatches' = {d \in dispatches : d.owner # r \/ InFlight(d)}
    /\ UNCHANGED <<storeVars, clock>>

\* orderRepo.findOne again, then res.json(refreshed).
Respond(r) ==
    /\ reqs[r].pc = "respond"
    /\ reqs' = [reqs EXCEPT ![r] =
            [reqs[r] EXCEPT !.pc = "done", !.code = 200,
                            !.result = FindOrder(reqs[r].order.id)]]
    /\ UNCHANGED <<storeVars, dispatches, clock>>

\* The response has been delivered and no call the handler started is still
\* running; the slot is free for the next request.
Finish(r) ==
    /\ reqs[r].pc = "done"
    /\ \A d \in DispatchesOf(r) : ~InFlight(d)
    /\ reqs' = [reqs EXCEPT ![r] = Idle]
    /\ dispatches' = dispatches \ DispatchesOf(r)
    /\ UNCHANGED <<storeVars, clock>>

\* PATCH /api/orders/:id up to its write: load the order, take over notes and
\* status from the body.  No transition check is made here.
StartPatchOrder(r, id, notes, status) ==
    /\ CanStart(r)
    /\ clock' = clock + 1
    /\ LET req == [Idle EXCEPT !.kind = "patch", !.id = id, !.notes = notes,
                               !.status = status]
           order == FindOrder(id)
           noted == IF notes # Undef THEN [order EXCEPT !.notes = NotesValue(notes)]
                                     ELSE order
       IN reqs' = [reqs EXCEPT ![r] =
            IF order = NoOrder
                THEN Fail(req, 404, <<"Order not found">>)
            ELSE IF status # UndefStatus /\ ~isOrderStatus(status)
                THEN Fail([req EXCEPT !.order = order], 400, <<"Invalid status value">>)
            ELSE [req EXCEPT !.pc = "save", !.previousStatus = order.status,
                             !.order = IF status # UndefStatus
                                       THEN [noted EXCEPT !.status = status]
                                       ELSE noted]]
    /\ UNCHANGED <<storeVars, dispatches>>

\* POST /api/orders/bulk-status: validate the body; the loop follows.
StartBulkStatus(r, orderIds, status) ==
    /\ CanStart(r)
    /\ clock' = clock + 1
    /\ LET req == [Idle EXCEPT !.kind = "bulk", !.orderIds = orderIds, !.status = status]
       IN reqs' = [reqs EXCEPT ![r] =
            IF Len(orderIds) = 0
                THEN Fail(req, 400, <<"orderIds must be a non-empty array">>)
            ELSE IF status = UndefStatus \/ ~isOrderStatus(status)
                THEN Fail(req, 400, <<"Valid target status is required">>)
            ELSE [req EXCEPT !.pc = "bulk", !.idx = 1]]
    /\ UNCHANGED <<storeVars, dispatches>>

\* failed.push({ id, reason: `Invalid transition: ${order.status} -> ${status}` }); continue;
RejectBulkItem(req, order) ==
    [req EXCEPT !.idx = @ + 1, !.id = order.id,
                !.failed = Append(@, [id |-> order.id, reason |->
                    <<"Invalid transition: ", order.status, " -> ", req.status>>])]

\* A loop that passes over an id it has already updated, reporting nothing.
BulkStep_SkipsRepeats(r) ==
    /\ reqs[r].pc = "bulk"
    /\ LET req == reqs[r]
           id == req.orderIds[req.idx]
           order == FindOrder(id)
           next == [req EXCEPT !.idx = @ + 1, !.id = id]
       IN reqs' = [reqs EXCEPT ![r] =
            IF req.idx > Len(req.orderIds)
                THEN [req EXCEPT !.pc = "done", !.code = 200]
            ELSE IF order = NoOrder
                THEN [next EXCEPT !.failed =
                        Append(@, [id |-> id, reason |-> <<"Order not found">>])]
            ELSE IF \E k \in DOMAIN req.succeeded : req.succeeded[k] = id
                THEN next
            ELSE IF ~canTransition(order.status, req.status)
                THEN RejectBulkItem(req, order)
            ELSE [next EXCEPT !.pc = "save", !.previousStatus = order.status,
                              !.order = [order EXCEPT !.status = req.status]]]
    /\ UNCHANGED <<storeVars, dispatches, clock>>

\* A loop that refuses only a change to the status the order already has.
BulkStep_SkipsCheck(r) ==
    /\ reqs[r].pc = "bulk"
    /\ LET req == reqs[r]
           id == req.orderIds[req.idx]
           order == FindOrder(id)
           next == [req EXCEPT !.idx = @ + 1, !.id = id]
       IN reqs' = [reqs EXCEPT ![r] =
            IF req.idx > Len(req.orderIds)
                THEN [req EXCEPT !.pc = "done", !.code = 200]
            ELSE IF order = NoOrder
                THEN [next EXCEPT !.failed =
                        Append(@, [id |-> id, reason |-> <<"Order not found">>])]
            ELSE IF order.status = req.status
                THEN RejectBulkItem(req, order)
            ELSE [next EXCEPT !.pc = "save", !.previousStatus = order.status,
                              !.order = [order EXCEPT !.status = req.status]]]
    /\ UNCHANGED <<storeVars, dispatches, clock>>

\* One turn of  for (const id of orderIds): load the order, push a failure and
\* continue, or set the status and save; after the last id, res.json.
BulkStep(r) ==
    /\ reqs[r].pc = "bulk"
    /\ LET req == reqs[r]
           id == req.orderIds[req.idx]
           order == FindOrder(id)
           next == [req EXCEPT !.idx = @ + 1, !.id = id]
       IN reqs' = [reqs EXCEPT ![r] =
            IF req.idx > Len(req.orderIds)
                THEN [req EXCEPT !.pc = "done", !.code = 200]
            ELSE IF order = NoOrder
                THEN [next EXCEPT !.failed =
                        Append(@, [id |-> id, reason |-> <<"Order not found">>])]
            ELSE IF ~canTransition(order.status, req.status)
                THEN RejectBulkItem(req, order)
            ELSE [next EXCEPT !.pc = "save", !.previousStatus = order.status,
                              !.order = [order EXCEPT !.status = req.status]]]
    /\ UNCHANGED <<storeVars, dispatches, clock>>

\* items.map(...): unitPrice from the product, lineTotal = unitPrice * quantity.
OrderItems(items) ==
    [i \in 1..Len(items) |->
        [productId |-> items[i].productId, quantity |-> items[i].quantity,
         unitPrice |-> Products[items[i].productId].price,
         lineTotal |-> Products[items[i].productId].price * items[i].quantity]]

\* A total that takes the first line for the whole order.
SumLineTotal_FirstLine(items) == IF items = <<>> THEN 0 ELSE Head(items).lineTotal

\* orderItems.reduce((acc, item) => acc + Number(item.lineTotal), 0)
RECURSIVE SumLineTotal(_)
SumLineTotal(items) ==
    IF items = <<>> THEN 0 ELSE Head(items).lineTotal + SumLineTotal(Tail(items))

\* The first complaint of the validation loop of POST /api/orders, <<>> for none.
RECURSIVE ItemError(_)
ItemError(items) ==
    IF items = <<>> THEN <<>>
    ELSE IF Head(items).quantity <= 0 THEN <<"Invalid quantity for product">>
    ELSE IF Head(items).productId \notin DOMAIN Products THEN <<"Product not found">>
    ELSE IF Head(items).quantity > Products[Head(items).productId].stockQuantity
        THEN <<"Insufficient stock for product">>
    ELSE ItemError(Tail(items))

\* POST /api/orders: validate, build the items, save the order with status
\* PENDING, answer 201 with it.  customerId 0 stands for a missing customerId.
CreateOrder(r, customerId, items, notes) ==
    /\ CanStart(r)
    /\ Len(orders) < MaxOrders
    /\ clock' = clock + 1
    /\ LET req == [Idle EXCEPT !.kind = "create", !.notes = notes]
           order == [id |-> Len(orders) + 1, customerId |-> customerId,
                     status |-> "PENDING", notes |-> NotesValue(notes),
                     items |-> OrderItems(items),
                     totalAmount |-> SumLineTotal(OrderItems(items))]
           error == IF customerId = 0 \/ Len(items) = 0
                        THEN <<"customerId and at least one item are required">>
                    ELSE IF customerId \notin Customers THEN <<"Customer not found">>
                    ELSE ItemError(items)
       IN IF error # <<>>
          THEN /\ reqs' = [reqs EXCEPT ![r] = Fail(req, 400, error)]
               /\ orders' = orders
          ELSE /\ reqs' = [reqs EXCEPT ![r] =
                    [req EXCEPT !.pc = "done", !.code = 201, !.id = order.id,
                                !.order = order, !.result = order]]
               /\ orders' = Append(orders, order)
    /\ UNCHANGED <<subs, deliveries, nextSubId, nextDeliveryId, dispatches>>

(* ----------------------- the webhook endpoints ------------------------ *)

\* A delete on a database that leaves the delivery rows of the subscription.
DeleteWebhook_KeepsRows(r, id) ==
    /\ CanStart(r)
    /\ LET req == [Idle EXCEPT !.kind = "deleteWebhook", !.id = id] IN
       IF FindSub(id) = {}
       THEN /\ reqs' = [reqs EXCEPT ![r] =
                            Fail(req, 404, <<"Webhook subscription not found">>)]
            /\ UNCHANGED <<subs, deliveries>>
       ELSE /\ reqs' = [reqs EXCEPT ![r] = [req EXCEPT !.pc = "done", !.code = 204]]
            /\ subs' = subs \ FindSub(id)
            /\ deliveries' = deliveries
    /\ UNCHANGED <<orders, nextSubId, nextDeliveryId, dispatches, clock>>

\* DELETE /api/webhooks/:id: 404 without the row; otherwise repo.remove, and
\* the database deletes the subscription's delivery rows with it (onDelete
\* CASCADE), then 204.
DeleteWebhook(r, id) ==
    /\ CanStart(r)
    /\ LET req == [Idle EXCEPT !.kind = "deleteWebhook", !.id = id] IN
       IF FindSub(id) = {}
       THEN /\ reqs' = [reqs EXCEPT ![r] =
                            Fail(req, 404, <<"Webhook subscription not found">>)]
            /\ UNCHANGED <<subs, deliveries>>
       ELSE /\ reqs' = [reqs EXCEPT ![r] = [req EXCEPT !.pc = "done", !.code = 204]]
            /\ subs' = subs \ FindSub(id)
            /\ deliveries' = {row \in deliveries : row.subscriptionId # id}
    /\ UNCHANGED <<orders, nextSubId, nextDeliveryId, dispatches, clock>>

\* { event: 'test', orderId: 0, data: { message: 'Test webhook delivery' }, timestamp }
TestPayload ==
    [event |-> <<"test">>, orderId |-> 0,
     data |-> [message |-> <<"Test webhook delivery">>], timestamp |-> clock]

\* A test send that treats an inactive subscription as missing.
StartTestWebhook_ActiveOnly(r, id) ==
    /\ CanStart(r)
    /\ clock' = clock + 1
    /\ LET req == [Idle EXCEPT !.kind = "test", !.id = id] IN
       IF {x \in FindSub(id) : x.isActive} = {}
       THEN /\ reqs' = [reqs EXCEPT ![r] =
                            Fail(req, 404, <<"Webhook subscription not found">>)]
            /\ UNCHANGED dispatches
       ELSE /\ reqs' = [reqs EXCEPT ![r] = [req EXCEPT !.pc = "sending"]]
            /\ dispatches' = dispatches \cup
                    {NewDispatch(r, "route", s, TestPayload, 1) : s \in FindSub(id)}
    /\ UNCHANGED storeVars

\* POST /api/webhooks/:id/test up to its await: 404 without the row; otherwise
\* the route's own sendAndRecordDelivery(subscription, payload, 1) is started.
StartTestWebhook(r, id) ==
    /\ CanStart(r)
    /\ clock' = clock + 1
    /\ LET req == [Idle EXCEPT !.kind = "test", !.id = id] IN
       IF FindSub(id) = {}
       THEN /\ reqs' = [reqs EXCEPT ![r] =
                            Fail(req, 404, <<"Webhook subscription not found">>)]
            /\ UNCHANGED dispatches
       ELSE /\ reqs' = [reqs EXCEPT ![r] = [req EXCEPT !.pc = "sending"]]
            /\ dispatches' = dispatches \cup
                    {NewDispatch(r, "route", s, TestPayload, 1) : s \in FindSub(id)}
    /\ UNCHANGED storeVars

\* The awaited sendAndRecordDelivery has returned its row:
\* res.status(201).json(delivery).
SendRespond(r) ==
    /\ reqs[r].pc = "sending"
    /\ \E d \in DispatchesOf(r) :
          /\ d.pc = "saved"
          /\ reqs' = [reqs EXCEPT ![r] =
                [reqs[r] EXCEPT !.pc = "done", !.code = 201, !.delivery = d.recordId]]
    /\ dispatches' = dispatches \ DispatchesOf(r)
    /\ UNCHANGED <<storeVars, clock>>

\* The awaited sendAndRecordDelivery has rejected: next(err), errorHandler
\* answers 500.
SendReject(r) ==
    /\ reqs[r].pc = "sending"
    /\ \E d \in DispatchesOf(r) : d.pc = "rejected"
    /\ reqs' = [reqs EXCEPT ![r] =
            Fail(reqs[r], 500, <<"violates foreign key constraint">>)]
    /\ dispatches' = dispatches \ DispatchesOf(r)
    /\ UNCHANGED <<storeVars, clock>>

\* deliveryRepo.findOne({ where: { id }, relations: ['subscription'] }) as a
\* set: empty for null.
FindDelivery(id) == {row \in deliveries : row.id = id}

\* A retry that looks only among the active subscriptions.
StartRetry_ActiveOnly(r, deliveryId) ==
    /\ CanStart(r)
    /\ clock' = clock + 1
    /\ LET req == [Idle EXCEPT !.kind = "retry", !.id = deliveryId]
           found == FindDelivery(deliveryId)
       IN IF found = {}
          THEN /\ reqs' = [reqs EXCEPT ![r] =
                            Fail(req, 404, <<"Webhook delivery not found">>)]
               /\ UNCHANGED dispatches
          ELSE LET originalDelivery == CHOOSE row \in found : TRUE
                   subscription == {x \in FindSub(originalDelivery.subscriptionId) : x.isActive}
               IN IF subscription = {}
                  THEN /\ reqs' = [reqs EXCEPT ![r] =
                            Fail(req, 404, <<"Webhook subscription not found for delivery">>)]
                       /\ UNCHANGED dispatches
                  ELSE /\ reqs' = [reqs EXCEPT ![r] = [req EXCEPT !.pc = "sending"]]
                       /\ dispatches' = dispatches \cup
                            { NewDispatch(r, "service", sub, originalDelivery.payload,
                                          originalDelivery.attemptNumber + 1)
                                : sub \in subscription }
    /\ UNCHANGED storeVars

\* A retry route that hands every error of the service to the error handler.
StartRetry_UnknownAs500(r, deliveryId) ==
    /\ CanStart(r)
    /\ clock' = clock + 1
    /\ LET req == [Idle EXCEPT !.kind = "retry", !.id = deliveryId]
           found == FindDelivery(deliveryId)
       IN IF found = {}
          THEN /\ reqs' = [reqs EXCEPT ![r] =
                            Fail(req, 500, <<"Webhook delivery not found">>)]
               /\ UNCHANGED dispatches
          ELSE LET originalDelivery == CHOOSE row \in found : TRUE
                   subscription == FindSub(originalDelivery.subscriptionId)
               IN IF subscription = {}
                  THEN /\ reqs' = [reqs EXCEPT ![r] =
                            Fail(req, 404, <<"Webhook subscription not found for delivery">>)]
                       /\ UNCHANGED dispatches
                  ELSE /\ reqs' = [reqs EXCEPT ![r] = [req EXCEPT !.pc = "sending"]]
                       /\ dispatches' = dispatches \cup
                            { NewDispatch(r, "service", sub, originalDelivery.payload,
                                          originalDelivery.attemptNumber + 1)
                                : sub \in subscription }
    /\ UNCHANGED storeVars

\* A retry that stamps the payload anew before it sends it.
StartRetry_FreshTimestamp(r, deliveryId) ==
    /\ CanStart(r)
    /\ clock' = clock + 1
    /\ LET req == [Idle EXCEPT !.kind = "retry", !.id = deliveryId]
           found == FindDelivery(deliveryId)
       IN IF found = {}
          THEN /\ reqs' = [reqs EXCEPT ![r] =
                            Fail(req, 404, <<"Webhook delivery not found">>)]
               /\ UNCHANGED dispatches
          ELSE LET originalDelivery == CHOOSE row \in found : TRUE
                   subscription == FindSub(originalDelivery.subscriptionId)
               IN IF subscription = {}
                  THEN /\ reqs' = [reqs EXCEPT ![r] =
                            Fail(req, 404, <<"Webhook subscription not found for delivery">>)]
                       /\ UNCHANGED dispatches
                  ELSE /\ reqs' = [reqs EXCEPT ![r] = [req EXCEPT !.pc = "sending"]]
                       /\ dispatches' = dispatches \cup
                            { NewDispatch(r, "service", sub,
                                          [originalDelivery.payload EXCEPT !.timestamp = clock],
                                          originalDelivery.attemptNumber + 1)
                                : sub \in subscription }
    /\ UNCHANGED storeVars

\* POST /api/webhooks/deliveries/:id/retry up to its await: retryWebhookDelivery
\* throws '... not found' without the row or without its subscription, and the
\* route answers 404; otherwise sendAndRecordDelivery(originalDelivery.subscription,
\* originalDelivery.payload, originalDelivery.attemptNumber + 1) is started.
StartRetry(r, deliveryId) ==
    /\ CanStart(r)
    /\ clock' = clock + 1
    /\ LET req == [Idle EXCEPT !.kind = "retry", !.id = deliveryId]
           found == FindDelivery(deliveryId)
       IN IF found = {}
          THEN /\ reqs' = [reqs EXCEPT ![r] =
                            Fail(req, 404, <<"Webhook delivery not found">>)]
               /\ UNCHANGED dispatches
          ELSE LET originalDelivery == CHOOSE row \in found : TRUE
                   subscription == FindSub(originalDelivery.subscriptionId)
               IN IF subscription = {}
                  THEN /\ reqs' = [reqs EXCEPT ![r] =
                            Fail(req, 404, <<"Webhook subscription not found for delivery">>)]
                       /\ UNCHANGED dispatches
                  ELSE /\ reqs' = [reqs EXCEPT ![r] = [req EXCEPT !.pc = "sending"]]
                       /\ dispatches' = dispatches \cup
                            { NewDispatch(r, "service", sub, originalDelivery.payload,
                                          originalDelivery.attemptNumber + 1)
                                : sub \in subscription }
    /\ UNCHANGED storeVars

\* new URL(value) succeeds: the parser strips blanks around the text; what is
\* left must be one absolute URL.
UrlTexts == {"http://a", "http://b", "http://c", "https://new"}
isValidUrl(value) == Len(Trim(value)) = 1 /\ Trim(value)[1] \in UrlTexts

\* typeof isActive === 'boolean', for a field sent as "true", "false" or not at all.
isBoolean(value) == value \in {"true", "false"}

\* events.some((event) => !event || !event.trim())
SomeBlank(events) == \E i \in 1..Len(events) : Trim(events[i]) = <<>>

\* events.map((event) => event.trim())
TrimAll(events) == [i \in 1..Len(events) |-> Trim(events[i])]

\* POST /api/webhooks: url, secret and events are validated in this order,
\* the trimmed values are stored, isActive defaults to true; 201.
CreateWebhook(r, url, secret, events, isActive) ==
    /\ CanStart(r)
    /\ LET req == [Idle EXCEPT !.kind = "createWebhook",
                               !.body = [url |-> url, secret |-> secret,
                                         events |-> events, isActive |-> isActive]]
       IN
       IF url = Undef \/ url = <<>> \/ ~isValidUrl(url)
       THEN /\ reqs' = [reqs EXCEPT ![r] = Fail(req, 400, <<"Valid url is required">>)]
            /\ UNCHANGED <<subs, nextSubId>>
       ELSE IF secret = Undef \/ secret = Null \/ secret = <<>> \/ Trim(secret) = <<>>
       THEN /\ reqs' = [reqs EXCEPT ![r] = Fail(req, 400, <<"secret is required">>)]
            /\ UNCHANGED <<subs, nextSubId>>
       ELSE IF events = UndefList \/ Len(events) = 0 \/ SomeBlank(events)
       THEN /\ reqs' = [reqs EXCEPT ![r] =
                    Fail(req, 400, <<"events must be a non-empty string array">>)]
            /\ UNCHANGED <<subs, nextSubId>>
       ELSE /\ subs' = subs \cup
                    {SubRow(nextSubId, Trim(url), Trim(secret), TrimAll(events),
                            IF isBoolean(isActive) THEN isActive = "true" ELSE TRUE)}
            /\ nextSubId' = nextSubId + 1
            /\ reqs' = [reqs EXCEPT ![r] =
                    [req EXCEPT !.pc = "done", !.code = 201, !.id = nextSubId]]
    /\ UNCHANGED <<orders, deliveries, nextDeliveryId, dispatches, clock>>

\* An update that saves each field as soon as it has accepted it.
UpdateWebhook_SavesAsItGoes(r, id, url, secret, events, isActive) ==
    /\ CanStart(r)
    /\ LET req == [Idle EXCEPT !.kind = "updateWebhook", !.id = id,
                               !.body = [url |-> url, secret |-> secret,
                                         events |-> events, isActive |-> isActive]]
       IN
       IF FindSub(id) = {}
       THEN /\ reqs' = [reqs EXCEPT ![r] =
                    Fail(req, 404, <<"Webhook subscription not found">>)]
            /\ UNCHANGED subs
       ELSE IF url # Undef /\ (url = <<>> \/ ~isValidUrl(url))
       THEN /\ reqs' = [reqs EXCEPT ![r] = Fail(req, 400, <<"Valid url is required">>)]
            /\ UNCHANGED subs
       ELSE IF secret = Null
       THEN /\ reqs' = [reqs EXCEPT ![r] =
                    Fail(req, 500, <<"Cannot read properties of null (reading 'trim')">>)]
            /\ UNCHANGED subs
       ELSE IF secret # Undef /\ Trim(secret) = <<>>
       THEN /\ reqs' = [reqs EXCEPT ![r] = Fail(req, 400, <<"secret cannot be empty">>)]
            /\ subs' = {IF x.id = id /\ url # Undef THEN [x EXCEPT !.url = Trim(url)] ELSE x
                            : x \in subs}
       ELSE IF events # UndefList /\ (Len(events) = 0 \/ SomeBlank(events))
       THEN /\ reqs' = [reqs EXCEPT ![r] =
                    Fail(req, 400, <<"events must be a non-empty string array">>)]
            /\ UNCHANGED subs
       ELSE LET subscription == CHOOSE x \in FindSub(id) : TRUE
                updated ==
                    [subscription EXCEPT
                        !.url = IF url # Undef THEN Trim(url) ELSE @,
                        !.secret = IF secret # Undef THEN Trim(secret) ELSE @,
                        !.events = IF events # UndefList
                                   THEN simpleArrayToString(TrimAll(events)) ELSE @,
                        !.isActive = IF isBoolean(isActive) THEN isActive = "true" ELSE @]
            IN /\ subs' = (subs \ {subscription}) \cup {updated}
               /\ reqs' = [reqs EXCEPT ![r] = [req EXCEPT !.pc = "done", !.code = 200]]
    /\ UNCHANGED <<orders, deliveries, nextSubId, nextDeliveryId, dispatches, clock>>

\* PUT /api/webhooks/:id: 404 without the row; each field the body carries is
\* validated and set on the loaded entity, in the order url, secret, events,
\* isActive, the first invalid one answering 400 (a null secret has no trim:
\* the TypeError goes to the error handler, 500); repo.save writes the entity
\* only after all of them passed.
UpdateWebhook(r, id, url, secret, events, isActive) ==
    /\ CanStart(r)
    /\ LET req == [Idle EXCEPT !.kind = "updateWebhook", !.id = id,
                               !.body = [url |-> url, secret |-> secret,
                                         events |-> events, isActive |-> isActive]]
       IN
       IF FindSub(id) = {}
       THEN /\ reqs' = [reqs EXCEPT ![r] =
                    Fail(req, 404, <<"Webhook subscription not found">>)]
            /\ UNCHANGED subs
       ELSE IF url # Undef /\ (url = <<>> \/ ~isValidUrl(url))
       THEN /\ reqs' = [reqs EXCEPT ![r] = Fail(req, 400, <<"Valid url is required">>)]
            /\ UNCHANGED subs
       ELSE IF secret = Null
       THEN /\ reqs' = [reqs EXCEPT ![r] =
                    Fail(req, 500, <<"Cannot read properties of null (reading 'trim')">>)]
            /\ UNCHANGED subs
       ELSE IF secret # Undef /\ Trim(secret) = <<>>
       THEN /\ reqs' = [reqs EXCEPT ![r] = Fail(req, 400, <<"secret cannot be empty">>)]
            /\ UNCHANGED subs
       ELSE IF events # UndefList /\ (Len(events) = 0 \/ SomeBlank(events))
       THEN /\ reqs' = [reqs EXCEPT ![r] =
                    Fail(req, 400, <<"events must be a non-empty string array">>)]
            /\ UNCHANGED subs
       ELSE LET subscription == CHOOSE x \in FindSub(id) : TRUE
                updated ==
                    [subscription EXCEPT
                        !.url = IF url # Undef THEN Trim(url) ELSE @,
                        !.secret = IF secret # Undef THEN Trim(secret) ELSE @,
                        !.events = IF events # UndefList
                                   THEN simpleArrayToString(TrimAll(events)) ELSE @,
                        !.isActive = IF isBoolean(isActive) THEN isActive = "true" ELSE @]
            IN /\ subs' = (subs \ {subscription}) \cup {updated}
               /\ reqs' = [reqs EXCEPT ![r] = [req EXCEPT !.pc = "done", !.code = 200]]
    /\ UNCHANGED <<orders, deliveries, nextSubId, nextDeliveryId, dispatches, clock>>

(* ------------------------ the order endpoints ------------------------- *)

\* Request inputs.
OrderIdInputs == 0..MaxOrders
StatusInputs == OrderStatus \cup {UndefStatus, "BOGUS"}
NotesInputs == {Undef, <<>>, <<" ", "rush", " ">>}
BulkInputs == {<<>>, <<1>>, <<1, 2>>, <<2, 1>>, <<1, 1>>, <<0, 1>>}
CreateInputs ==
    { [customerId |-> 1, items |-> <<[productId |-> 1, quantity |-> 2]>>],
      [customerId |-> 0, items |-> <<[productId |-> 1, quantity |-> 2]>>],
      [customerId |-> 9, items |-> <<[productId |-> 1, quantity |-> 2]>>],
      [customerId |-> 1, items |-> <<>>],
      [customerId |-> 1, items |-> <<[productId |-> 1, quantity |-> 0]>>],
      [customerId |-> 1, items |-> <<[productId |-> 3, quantity |-> 1]>>],
      [customerId |-> 1, items |-> <<[productId |-> 2, quantity |-> 76]>>] }

\* The requests run one at a time, each to its response.
SeqSlots == {1}

Init ==
    /\ \E status \in OrderStatus :
            orders = <<SeedOrder(1, status), SeedOrder(2, "PENDING")>>
    /\ subs = SeedSubs
    /\ deliveries = {}
    /\ nextSubId = 4
    /\ nextDeliveryId = 1
    /\ reqs = [r \in AllSlots |-> Idle]
    /\ dispatches = {}
    /\ clock = 0

Next ==
    \/ \E r \in SeqSlots, id \in OrderIdInputs, status \in StatusInputs :
            clock < MaxRequests /\ StartChangeStatus(r, id, status)
    \/ \E r \in SeqSlots, id \in OrderIdInputs, notes \in NotesInputs,
          status \in StatusInputs :
            clock < MaxRequests /\ StartPatchOrder(r, id, notes, status)
    \/ \E r \in SeqSlots, orderIds \in BulkInputs, status \in StatusInputs :
            clock < MaxRequests /\ StartBulkStatus(r, orderIds, status)
    \/ \E r \in SeqSlots, in \in CreateInputs, notes \in NotesInputs :
            clock < MaxRequests /\ CreateOrder(r, in.customerId, in.items, notes)
    \/ \E r \in SeqSlots : BulkStep(r)
    \/ \E r \in SeqSlots : SaveOrder(r)
    \/ \E r \in SeqSlots : Trigger(r)
    \/ \E d \in dispatches, o \in BasicOutcomes : DispatchSettle(d, o)
    \/ \E d \in dispatches : DispatchSave(d)
    \/ \E r \in SeqSlots : FanoutResolve(r)
    \/ \E r \in SeqSlots : Respond(r)
    \/ \E r \in SeqSlots : Finish(r)

Spec == Init /\ [][Next]_vars

(* ------------- the fan-out next to subscription deletes ---------------- *)

\* Subscription ids a request may name; 0 names no row.
HookIdInputs == 0..3

\* Endpoint behaviours of the fan-out: an answer, an error answer, a refused
\* connection, a connection that times out.
FanoutOutcomes ==
    BasicOutcomes \cup {AxiosFailure(<<"connect ETIMEDOUT">>)}

\* Slot 1 takes the requests that send webhooks, slot 2 the deletes that
\* arrive while they run.
SendSlots == {1}
AdminSlots == {2}

NextFanout ==
    \/ \E r \in SendSlots, status \in OrderStatus :
            clock < MaxRequests /\ StartChangeStatus(r, 1, status)
    \/ \E r \in SendSlots, id \in HookIdInputs :
            clock < MaxRequests /\ StartTestWebhook(r, id)
    \/ \E r \in AdminSlots, id \in HookIdInputs : DeleteWebhook(r, id)
    \/ \E r \in SendSlots : SaveOrder(r)
    \/ \E r \in SendSlots : Trigger(r)
    \/ \E d \in dispatches, o \in FanoutOutcomes : DispatchSettle(d, o)
    \/ \E d \in dispatches : DispatchSave(d)
    \/ \E r \in SendSlots : FanoutResolve(r)
    \/ \E r \in SendSlots : FanoutReject(r)
    \/ \E r \in SendSlots : SendRespond(r)
    \/ \E r \in SendSlots : SendReject(r)
    \/ \E r \in SendSlots : Respond(r)
    \/ \E r \in AllSlots : Finish(r)

SpecFanout == Init /\ [][NextFanout]_vars

(* ------------------- every outcome of the POST ------------------------- *)

\* What the POST can come to: answers on both edges of the 2xx range, with
\* text and with structured bodies; failures without a response, with and
\* without a message; failures that carry the response they came from; an
\* Error that is not axios's; a thrown value that is no Error.
AllOutcomes ==
    { Resolved(200, StringData(<<"ok">>)),
      Resolved(299, ObjectData(<<"accepted">>)),
      Resolved(199, StringData(<<>>)),
      Resolved(300, StringData(<<"moved">>)),
      Resolved(404, ObjectData(<<"missing">>)),
      Resolved(500, StringData(<<"boom">>)),
      AxiosFailure(<<"connect ECONNREFUSED">>),
      AxiosFailure(<<"connect ETIMEDOUT">>),
      AxiosFailure(<<>>),
      AxiosResponseFailure(502, StringData(<<"bad gateway">>), <<"stream has been aborted">>),
      AxiosResponseFailure(200, NoData, <<"Cannot create a string longer than">>),
      AxiosResponseFailure(503, ObjectData(<<"busy">>), <<>>),
      PlainError(<<"Invalid URL">>),
      Thrown }

NextDispatch ==
    \/ \E r \in SendSlots, status \in OrderStatus :
            clock < MaxRequests /\ StartChangeStatus(r, 1, status)
    \/ \E r \in SendSlots, id \in HookIdInputs :
            clock < MaxRequests /\ StartTestWebhook(r, id)
    \/ \E r \in SendSlots : SaveOrder(r)
    \/ \E r \in SendSlots : Trigger(r)
    \/ \E d \in dispatches, o \in AllOutcomes : DispatchSettle(d, o)
    \/ \E d \in dispatches : DispatchSave(d)
    \/ \E r \in SendSlots : FanoutResolve(r)
    \/ \E r \in SendSlots : SendRespond(r)
    \/ \E r \in SendSlots : Respond(r)
    \/ \E r \in SendSlots : Finish(r)

SpecDispatch == Init /\ [][NextDispatch]_vars

(* ----------------------- the delivery history -------------------------- *)

\* Delivery ids a retry may name: the rows a run can create, and 0 for none.
DeliveryIdInputs == 0..MaxSends

\* Subscriptions the history is built on: 1 and 2, and 0 for none.
HistoryHookIds == 0..2

\* Endpoint behaviours of the history: an answer, or a refused connection.
HistoryOutcomes ==
    { Resolved(200, StringData(<<"ok">>)), AxiosFailure(<<"connect ECONNREFUSED">>) }

\* Both status changes open to the seeded order: SHIPPED reaches two
\* subscriptions, CANCELLED reaches none.
InitHistory ==
    /\ orders = <<SeedOrder(1, "PROCESSING"), SeedOrder(2, "PENDING")>>
    /\ subs = SeedSubs
    /\ deliveries = {}
    /\ nextSubId = 4
    /\ nextDeliveryId = 1
    /\ reqs = [r \in AllSlots |-> Idle]
    /\ dispatches = {}
    /\ clock = 0

\* Fan-outs, test sends and retries, one after the other, next to the
\* subscription deletes and updates that arrive while they run.
NextHistory ==
    \/ \E r \in SendSlots, status \in {"SHIPPED", "CANCELLED"} :
            clock < MaxSends /\ StartChangeStatus(r, 1, status)
    \/ \E r \in SendSlots, id \in HistoryHookIds :
            clock < MaxSends /\ StartTestWebhook(r, id)
    \/ \E r \in SendSlots, id \in DeliveryIdInputs :
            clock < MaxSends /\ StartRetry(r, id)
    \/ \E r \in AdminSlots, id \in HistoryHookIds : DeleteWebhook(r, id)
    \/ \E r \in AdminSlots :
            UpdateWebhook(r, 1, <<"https://new">>, <<"k9">>, UndefList, "false")
    \/ \E r \in SendSlots : SaveOrder(r)
    \/ \E r \in SendSlots : Trigger(r)
    \/ \E d \in dispatches, o \in HistoryOutcomes : DispatchSettle(d, o)
    \/ \E d \in dispatches : DispatchSave(d)
    \/ \E r \in SendSlots : FanoutResolve(r)
    \/ \E r \in SendSlots : FanoutReject(r)
    \/ \E r \in SendSlots : SendRespond(r)
    \/ \E r \in SendSlots : SendReject(r)
    \/ \E r \in SendSlots : Respond(r)
    \/ \E r \in AllSlots : Finish(r)

SpecHistory == InitHistory /\ [][NextHistory]_vars

(* --------------------- first sends and their retries -------------------- *)

\* Endpoint behaviours on and around the edges of the 2xx range, a failure
\* that carries a 2xx response, and a refused connection.
EdgeOutcomes ==
    { Resolved(199, StringData(<<"early">>)),
      Resolved(200, StringData(<<"ok">>)),
      Resolved(299, ObjectData(<<"accepted">>)),
      Resolved(300, StringData(<<"moved">>)),
      AxiosResponseFailure(200, NoData, <<"Cannot create a string longer than">>),
      AxiosFailure(<<"connect ECONNREFUSED">>) }

\* The seeded order is CONFIRMED: its change to PROCESSING reaches one
\* subscription, its change to CANCELLED none.
InitRetry ==
    /\ orders = <<SeedOrder(1, "CONFIRMED"), SeedOrder(2, "PENDING")>>
    /\ subs = SeedSubs
    /\ deliveries = {}
    /\ nextSubId = 4
    /\ nextDeliveryId = 1
    /\ reqs = [r \in AllSlots |-> Idle]
    /\ dispatches = {}
    /\ clock = 0

\* Fan-outs, test sends and retries, one request after the other.
NextRetry ==
    \/ \E r \in SendSlots, status \in {"PROCESSING", "CANCELLED"} :
            clock < MaxSends /\ StartChangeStatus(r, 1, status)
    \/ \E r \in SendSlots, id \in HistoryHookIds :
            clock < MaxSends /\ StartTestWebhook(r, id)
    \/ \E r \in SendSlots, id \in DeliveryIdInputs :
            clock < MaxSends /\ StartRetry(r, id)
    \/ \E r \in SendSlots : SaveOrder(r)
    \/ \E r \in SendSlots : Trigger(r)
    \/ \E d \in dispatches, o \in EdgeOutcomes : DispatchSettle(d, o)
    \/ \E d \in dispatches : DispatchSave(d)
    \/ \E r \in SendSlots : FanoutResolve(r)
    \/ \E r \in SendSlots : SendRespond(r)
    \/ \E r \in SendSlots : Respond(r)
    \/ \E r \in SendSlots : Finish(r)

SpecRetry == InitRetry /\ [][NextRetry]_vars

(* ------------------ subscriptions created and updated ------------------ *)

\* Bodies of POST /api/webhooks and PUT /api/webhooks/:id, field by field: the
\* field left out, blank and padded values, a text that is no URL, an event
\* name that holds a comma.
HookUrlInputs == {Undef, <<"http://a">>, <<" ", "https://new">>, <<"not a url">>}
HookSecretInputs == {Undef, Null, <<>>, <<" ">>, <<" ", "k1", " ">>}
HookEventInputs ==
    { UndefList, <<>>, << <<" ">> >>, << <<" ">> \o EventOf("SHIPPED") >>,
      << EventOf("SHIPPED"), <<",">> >> }
HookActiveInputs == {"<undefined>", "false"}

\* An empty subscription table and one PENDING order.
InitHooks ==
    /\ orders = <<SeedOrder(1, "PENDING")>>
    /\ subs = {}
    /\ nextSubId = 1
    /\ deliveries = {}
    /\ nextDeliveryId = 1
    /\ reqs = [r \in AllSlots |-> Idle]
    /\ dispatches = {}
    /\ clock = 0

\* Subscription requests and order requests, one at a time.
NextHooks ==
    \/ \E r \in SeqSlots, url \in HookUrlInputs, secret \in HookSecretInputs,
          events \in HookEventInputs, isActive \in HookActiveInputs :
            nextSubId <= MaxHooks /\ CreateWebhook(r, url, secret, events, isActive)
    \/ \E r \in SeqSlots, id \in 0..MaxHooks, url \in HookUrlInputs,
          secret \in HookSecretInputs, events \in HookEventInputs,
          isActive \in HookActiveInputs :
            UpdateWebhook(r, id, url, secret, events, isActive)
    \/ \E r \in SeqSlots, id \in 0..1 : DeleteWebhook(r, id)
    \/ \E r \in SeqSlots, id \in 0..1, notes \in {Undef, <<" ", "rush", " ">>},
          status \in {UndefStatus, "BOGUS"} :
            clock < MaxRequests /\ StartPatchOrder(r, id, notes, status)
    \/ \E r \in SeqSlots, id \in 0..1, status \in {"DELIVERED", "BOGUS"} :
            clock < MaxRequests /\ StartChangeStatus(r, id, status)
    \/ \E r \in SeqSlots : SaveOrder(r)
    \/ \E r \in SeqSlots : Respond(r)
    \/ \E r \in SeqSlots : Finish(r)

SpecHooks == InitHooks /\ [][NextHooks]_vars

(* ------------- bulk updates next to subscription deletes ---------------- *)

\* Order 1 is PENDING, order 2 is DELIVERED.
InitBulk ==
    /\ orders = <<SeedOrder(1, "PENDING"), SeedOrder(2, "DELIVERED")>>
    /\ subs = SeedSubs
    /\ deliveries = {}
    /\ nextSubId = 4
    /\ nextDeliveryId = 1
    /\ reqs = [r \in AllSlots |-> Idle]
    /\ dispatches = {}
    /\ clock = 0

\* Bulk updates, next to the subscription deletes that arrive while they run.
NextBulk ==
    \/ \E r \in SendSlots, orderIds \in BulkInputs, status \in {"CONFIRMED", "CANCELLED"} :
            clock < MaxRequests /\ StartBulkStatus(r, orderIds, status)
    \/ \E r \in AdminSlots, id \in 0..1 : DeleteWebhook(r, id)
    \/ \E r \in SendSlots : BulkStep(r)
    \/ \E r \in SendSlots : SaveOrder(r)
    \/ \E r \in SendSlots : Trigger(r)
    \/ \E d \in dispatches, o \in HistoryOutcomes : DispatchSettle(d, o)
    \/ \E d \in dispatches : DispatchSave(d)
    \/ \E r \in SendSlots : FanoutResolve(r)
    \/ \E r \in SendSlots : FanoutReject(r)
    \/ \E r \in AllSlots : Finish(r)

SpecBulk == InitBulk /\ [][NextBulk]_vars

(* ------------ a bulk update and the single updates it stands for -------- *)

\* Orders 3 and 4 are the twins of orders 1 and 2: they start with the same
\* status.  The bulk request names orders 1 and 2, the single requests that
\* follow it name their twins.
Twin(id) == IF id \in 1..2 THEN id + 2 ELSE id
TwinSlots == {2}
TwinLists == BulkInputs \ {<<>>}

\* Each subscriber endpoint behaves the same way every time: subscriber 1
\* answers 200, the others refuse the connection.
EndpointOf(subscription) ==
    IF subscription.id = 1 THEN Resolved(200, StringData(<<"ok">>))
    ELSE AxiosFailure(<<"connect ECONNREFUSED">>)

InitTwins ==
    /\ \E s1 \in OrderStatus, s2 \in OrderStatus :
            orders = <<SeedOrder(1, s1), SeedOrder(2, s2), SeedOrder(3, s1), SeedOrder(4, s2)>>
    /\ subs = SeedSubs
    /\ deliveries = {}
    /\ nextSubId = 4
    /\ nextDeliveryId = 1
    /\ reqs = [r \in AllSlots |-> Idle]
    /\ dispatches = {}
    /\ clock = 0

\* One bulk request, answered and left on display; then one PATCH
\* /orders/:id/status per entry of its list, in the order of the list, each
\* for the twin of the entry and each run to its answer.
NextTwins ==
    \/ \E r \in SendSlots, orderIds \in TwinLists, status \in OrderStatus :
            clock = 0 /\ StartBulkStatus(r, orderIds, status)
    \/ \E r \in TwinSlots, b \in SendSlots :
            /\ reqs[b].kind = "bulk" /\ reqs[b].pc = "done"
            /\ clock \in 1..Len(reqs[b].orderIds)
            /\ StartChangeStatus(r, Twin(reqs[b].orderIds[clock]), reqs[b].status)
    \/ \E r \in SendSlots : BulkStep(r)
    \/ \E r \in AllSlots : SaveOrder(r)
    \/ \E r \in AllSlots : Trigger(r)
    \/ \E d \in dispatches : DispatchSettle(d, EndpointOf(d.subscription))
    \/ \E d \in dispatches : DispatchSave(d)
    \/ \E r \in AllSlots : FanoutResolve(r)
    \/ \E r \in TwinSlots : Respond(r)
    \/ \E r \in TwinSlots : Finish(r)

SpecTwins == InitTwins /\ [][NextTwins]_vars

(* ------------------ an order from creation onwards -------------------- *)

\* Bodies of POST /api/orders: one line, two lines, two lines of one product,
\* and bodies the validation refuses.
OrderInputs ==
    { [customerId |-> 1, items |-> <<[productId |-> 1, quantity |-> 2]>>],
      [customerId |-> 2, items |-> <<[productId |-> 1, quantity |-> 3],
                                    [productId |-> 2, quantity |-> 75]>>],
      [customerId |-> 1, items |-> <<[productId |-> 2, quantity |-> 1],
                                    [productId |-> 2, quantity |-> 2]>>],
      [customerId |-> 1, items |-> <<[productId |-> 1, quantity |-> 1],
                                    [productId |-> 2, quantity |-> 76]>>],
      [customerId |-> 1, items |-> <<[productId |-> 1, quantity |-> 0]>>],
      [customerId |-> 9, items |-> <<[productId |-> 1, quantity |-> 2]>>] }

\* The order POST /api/orders has created, and the seeded order 1.
CreatedIds == {1, 3}

\* POST /api/orders first; then requests that update the created order and
\* the seeded order 1, one at a time.
NextCreate ==
    \/ \E r \in SeqSlots, in \in OrderInputs, notes \in {Undef, <<" ", "rush", " ">>} :
            clock = 0 /\ CreateOrder(r, in.customerId, in.items, notes)
    \/ \E r \in SeqSlots, id \in CreatedIds, status \in {"CONFIRMED", "CANCELLED", "SHIPPED"} :
            clock \in 1..MaxRequests /\ StartChangeStatus(r, id, status)
    \/ \E r \in SeqSlots, id \in CreatedIds, notes \in {Undef, <<"late">>},
          status \in {UndefStatus, "DELIVERED"} :
            clock \in 1..MaxRequests /\ StartPatchOrder(r, id, notes, status)
    \/ \E r \in SeqSlots, orderIds \in {<<3, 1>>, <<1, 3>>}, status \in {"CONFIRMED", "CANCELLED"} :
            clock \in 1..MaxRequests /\ StartBulkStatus(r, orderIds, status)
    \/ \E r \in SeqSlots : BulkStep(r)
    \/ \E r \in SeqSlots : SaveOrder(r)
    \/ \E r \in SeqSlots : Trigger(r)
    \/ \E d \in dispatches, o \in HistoryOutcomes : DispatchSettle(d, o)
    \/ \E d \in dispatches : DispatchSave(d)
    \/ \E r \in SeqSlots : FanoutResolve(r)
    \/ \E r \in SeqSlots : Respond(r)
    \/ \E r \in SeqSlots : Finish(r)

SpecCreate == InitBulk /\ [][NextCreate]_vars

(* ----------------- requests next to a silent subscriber ----------------- *)

\* Subscriber 2 accepts the connection and may never answer.  axios.post is
\* called without a timeout option, and axios' default timeout is 0 (none), so
\* nothing on the side of the program ends such a POST.
Silent(subscription) == subscription.id = 2

\* The POST of call d is answered or fails.
Settles(d) == \E o \in HistoryOutcomes : DispatchSettle(d, o)

\* The steps the program takes on its own once a request has arrived.
HandlerStep ==
    \/ \E r \in SendSlots : BulkStep(r)
    \/ \E r \in SendSlots : SaveOrder(r)
    \/ \E r \in SendSlots : Trigger(r)
    \/ \E d \in dispatches : DispatchSave(d)
    \/ \E r \in SendSlots : FanoutResolve(r)
    \/ \E r \in SendSlots : SendRespond(r)
    \/ \E r \in SendSlots : Respond(r)

\* A subscriber that is not silent answers or fails in the end.
ResponsiveSettle == \E d \in dispatches : ~Silent(d.subscription) /\ Settles(d)

NextLive ==
    \/ \E r \in SendSlots, status \in {"SHIPPED", "CANCELLED"} :
            clock < MaxRequests /\ StartChangeStatus(r, 1, status)
    \/ \E r \in SendSlots, orderIds \in {<<1, 2>>, <<2, 1>>}, status \in {"CONFIRMED", "SHIPPED"} :
            clock < MaxRequests /\ StartBulkStatus(r, orderIds, status)
    \/ \E r \in SendSlots, id \in HistoryHookIds :
            clock < MaxRequests /\ StartTestWebhook(r, id)
    \/ \E r \in SendSlots, id \in DeliveryIdInputs :
            clock < MaxRequests /\ StartRetry(r, id)
    \/ \E d \in dispatches : Settles(d)
    \/ HandlerStep
    \/ \E r \in SendSlots : Finish(r)

\* The runtime runs every handler step that is ready, and every subscriber
\* that is not silent answers.
SpecLive ==
    InitHistory /\ [][NextLive]_vars /\ WF_vars(HandlerStep) /\ WF_vars(ResponsiveSettle)

\* Two clients at once: status changes for order 1, single or in a bulk list,
\* arrive on both slots and their steps interleave freely; every subscriber
\* answers as EndpointOf says.
RaceLists == {<<1>>}

NextRace ==
    \/ \E r \in AllSlots, status \in OrderStatus :
            clock <= MaxRequests /\ StartChangeStatus(r, 1, status)
    \/ \E r \in AllSlots, orderIds \in RaceLists, status \in OrderStatus :
            clock <= MaxRequests /\ StartBulkStatus(r, orderIds, status)
    \/ \E r \in AllSlots : BulkStep(r)
    \/ \E r \in AllSlots : SaveOrder(r)
    \/ \E r \in AllSlots : Trigger(r)
    \/ \E d \in dispatches : DispatchSettle(d, EndpointOf(d.subscription))
    \/ \E d \in dispatches : DispatchSave(d)
    \/ \E r \in AllSlots : FanoutResolve(r)
    \/ \E r \in AllSlots : Respond(r)
    \/ \E r \in AllSlots : Finish(r)

SpecRace == Init /\ [][NextRace]_vars

(* ------------------------------- claims ------------------------------- *)

\* The transition table as the specification prints it.
LegalPairs ==
    { <<"PENDING", "CONFIRMED">>, <<"PENDING", "CANCELLED">>,
      <<"CONFIRMED", "PROCESSING">>, <<"CONFIRMED", "CANCELLED">>,
      <<"PROCESSING", "SHIPPED">>, <<"PROCESSING", "CANCELLED">>,
      <<"SHIPPED", "DELIVERED">> }

\* The request in slot r asked for a status change of an order it found, with a
\* valid status value: it has evaluated canTransition(from, to).
Checked(q) == q.kind = "status" /\ q.order # NoOrder /\ isOrderStatus(q.status)
CheckedFrom(q) == IF q.pc = "done" /\ q.code = 400 THEN q.order.status ELSE q.previousStatus

\* canTransition over all 36 pairs against the printed table.
TableAsPrinted ==
    /\ \A from \in OrderStatus, to \in OrderStatus :
            canTransition(from, to) <=> <<from, to>> \in LegalPairs
    /\ \A from \in OrderStatus :
            /\ ~canTransition(from, from)
            /\ from \in {"DELIVERED", "CANCELLED"} =>
                    \A to \in OrderStatus : ~canTransition(from, to)

\* C1: canTransition is true for exactly the seven pairs of the table and false
\* for the other 29 of the 36 pairs, the six self-pairs and every pair from
\* DELIVERED or CANCELLED among them; PATCH /orders/:id/status accepts a
\* change exactly when its pair is one of the seven.
C1_CanTransitionTable ==
    /\ TableAsPrinted
    /\ \A r \in AllSlots :
            Checked(reqs[r]) =>
                ((reqs[r].pc = "done" /\ reqs[r].code = 400)
                    <=> <<CheckedFrom(reqs[r]), reqs[r].status>> \notin LegalPairs)

\* A legal change and an illegal one have both been decided.
C1_Witness ==
    \E r \in AllSlots :
        /\ Checked(reqs[r])
        /\ reqs[r].pc = "save"
        /\ reqs[r].previousStatus = "SHIPPED"
        /\ reqs[r].status = "DELIVERED"

\* C2: every change of an order's stored status from X to Y, by whichever
\* endpoint, satisfies canTransition(X, Y).
C2_StatusOnlyByTransition ==
    [][\A i \in 1..Len(orders) :
            orders'[i].status # orders[i].status =>
                canTransition(orders[i].status, orders'[i].status)]_vars

\* The events the specification says are the only ones ever emitted.
EmittedEvents == {EventOf(s) : s \in OrderStatus \ {"PENDING"}}

\* C3: every event passed to triggerWebhooks, and stored on a delivery row
\* the fan-out creates, is order.status.<S> for an S other than PENDING.
C3_NoPendingEvent ==
    /\ \A r \in AllSlots : \A i \in 1..Len(reqs[r].triggers) :
            reqs[r].triggers[i].event \in EmittedEvents
    /\ \A row \in deliveries : row.event \in EmittedEvents

\* The request in slot r has been refused for an illegal transition.
Refused(q) ==
    /\ q.kind = "status" /\ q.pc = "done" /\ q.code = 400
    /\ q.order # NoOrder
IllegalItems(q) ==
    {i \in 1..Len(q.failed) : q.failed[i].reason # <<"Order not found">>}

\* A step in which slot r refuses an illegal transition (the single endpoint
\* answers 400, the bulk loop pushes a failure with that reason).
RefusesNow(r) ==
    \/ Refused(reqs'[r]) /\ ~Refused(reqs[r])
    \/ Cardinality(IllegalItems(reqs'[r])) > Cardinality(IllegalItems(reqs[r]))

C4_State ==
    \A r \in AllSlots :
        LET q == reqs[r] IN
        /\ Refused(q) =>
            /\ q.error = <<"Invalid status transition: ", FindOrder(q.id).status,
                           " -> ", q.status>>
            /\ ~canTransition(FindOrder(q.id).status, q.status)
            /\ FindOrder(q.id) = q.order
            /\ ~q.saved /\ q.triggers = <<>> /\ DispatchesOf(r) = {}
        /\ (Checked(q) /\ ~canTransition(CheckedFrom(q), q.status)) => Refused(q)
        /\ \A i \in IllegalItems(q) :
            /\ q.failed[i].reason = <<"Invalid transition: ",
                    FindOrder(q.failed[i].id).status, " -> ", q.status>>
            /\ ~canTransition(FindOrder(q.failed[i].id).status, q.status)

C4_Step ==
    \A r \in AllSlots :
        RefusesNow(r) =>
            /\ UNCHANGED <<storeVars, dispatches>>
            /\ reqs'[r].triggers = reqs[r].triggers
            /\ reqs'[r].saved = reqs[r].saved
            /\ reqs'[r].pc \in {"done", "bulk"}

\* C4: a status change that is not reachable from the order's current status
\* is refused with an error naming both statuses (400 on the single
\* endpoint, a failed item in the bulk one); the refusing step leaves every
\* table unchanged, the order keeps its status and notes, and neither a save
\* nor triggerWebhooks nor a delivery follows from it.
C4_InvalidTransitionRefused == []C4_State /\ [][C4_Step]_vars

\* Both refusals have happened: a 400 and a failed bulk item for an order that
\* is stored, next to an item of the same list that went through.
C4_Witness ==
    \E r \in AllSlots :
        \/ Refused(reqs[r]) /\ reqs[r].order.status = "DELIVERED"
        \/ /\ IllegalItems(reqs[r]) # {}
           /\ reqs[r].succeeded # <<>>
           /\ reqs[r].pc = "done"

\* The handler in slot r has called triggerWebhooks.
Triggered(q) == q.pc \in {"fanout", "respond"} \/ (q.pc = "done" /\ q.code = 200)

\* C5: on a legal change through PATCH /orders/:id/status the new status is
\* stored before triggerWebhooks is called, and triggerWebhooks is called
\* exactly once, with event order.status.<requested> and data whose
\* previousStatus is the status the save replaced and whose status is the
\* requested one.
C5_SaveThenTriggerOnce ==
    \A r \in AllSlots :
        LET q == reqs[r] IN
        q.kind = "status" =>
            /\ q.pc \in {"save", "trigger"} => q.triggers = <<>>
            /\ q.pc = "trigger" => q.saved /\ FindOrder(q.id).status = q.status
            /\ Triggered(q) =>
                /\ Len(q.triggers) = 1
                /\ q.triggers[1].afterSave
                /\ q.triggers[1].persisted = q.status
                /\ q.triggers[1].orderId = q.id
                /\ q.triggers[1].event = <<"order.status.", q.status>>
                /\ q.triggers[1].data.previousStatus = q.before
                /\ q.triggers[1].data.status = q.status
                /\ canTransition(q.before, q.status)
            /\ (q.pc = "done" /\ q.code # 200) => q.triggers = <<>>

\* A legal change has been answered after its one call of triggerWebhooks.
C5_Witness ==
    \E r \in AllSlots :
        /\ reqs[r].kind = "status" /\ reqs[r].pc = "done" /\ reqs[r].code = 200
        /\ Len(reqs[r].triggers) = 1
        /\ reqs[r].triggers[1].data.previousStatus = "PROCESSING"
        /\ reqs[r].triggers[1].event = EventOf("SHIPPED")

\* The delivery rows the i-th triggerWebhooks call of request q created.
RowsOf(q, i) == q.triggers[i].rowsAfter \ q.triggers[i].rowsBefore

\* C6: once a legal change is stored, no outcome of the fan-out (a non-2xx
\* answer, a transport failure) takes it back: the order keeps the requested
\* status and PATCH /orders/:id/status answers 200 with the updated order.
C6_FanoutNeverRollsBack ==
    \A r \in AllSlots :
        LET q == reqs[r] IN
        (q.kind = "status" /\ q.saved) =>
            /\ FindOrder(q.id).status = q.status
            /\ q.pc = "done" => (q.code = 200 /\ q.result.status = q.status)
            /\ q.pc \in {"trigger", "fanout", "respond", "done"}

\* A change answered 200 although both of its deliveries failed, one with a
\* 500 and one without any response.
C6_Witness ==
    \E r \in AllSlots :
        /\ reqs[r].kind = "status" /\ reqs[r].pc = "done" /\ reqs[r].code = 200
        /\ \E a \in RowsOf(reqs[r], 1), b \in RowsOf(reqs[r], 1) :
              /\ a.statusCode = 500 /\ ~a.success
              /\ b.statusCode = NullCode /\ ~b.success

\* The stored, comma-joined list holds event as one whole element: an
\* occurrence that starts the list or follows a comma, and ends the list or
\* is followed by a comma.
ListsExactly(stored, event) ==
    \E i \in 1..(Len(stored) - Len(event) + 1) :
        /\ i = 1 \/ stored[i - 1] = ","
        /\ i + Len(event) - 1 = Len(stored) \/ stored[i + Len(event)] = ","
        /\ SubSeq(stored, i, i + Len(event) - 1) = event

\* The subscriptions of table t that are active and list event as an element.
Subscribed(t, event) == {s \in t : s.isActive /\ ListsExactly(s.events, event)}

\* C7: one call of triggerWebhooks creates exactly one delivery row, with
\* attemptNumber 1 and the call's event and orderId, for each subscription
\* that is active and lists the event as an exact element, and none for any
\* other subscription; with no such subscription it creates nothing and
\* returns normally.
C7_OneRowPerMatch ==
    \A r \in AllSlots : \A i \in 1..Len(reqs[r].triggers) :
        LET c == reqs[r].triggers[i]
            rows == RowsOf(reqs[r], i)
            matched == {s.id : s \in Subscribed(c.subsSeen, c.event)}
        IN c.returned =>
            /\ {row.subscriptionId : row \in rows} = matched
            /\ Cardinality(rows) = Cardinality(matched)
            /\ \A row \in rows :
                  /\ row.attemptNumber = 1
                  /\ row.event = c.event
                  /\ row.orderId = c.orderId
            /\ ~(reqs[r].pc = "done" /\ reqs[r].code = 500)

\* A call has returned whose event two subscriptions list, next to an
\* inactive one that lists it and to longer names that contain it.
C7_Witness ==
    \E r \in AllSlots :
        /\ Len(reqs[r].triggers) = 1
        /\ reqs[r].triggers[1].returned
        /\ reqs[r].triggers[1].event = EventOf("SHIPPED")
        /\ {row.subscriptionId : row \in RowsOf(reqs[r], 1)} = {1, 2}

\* The endpoint answered, and with a status in [200, 300).
Is2xx(o) == o.kind = "response" /\ o.status >= 200 /\ o.status < 300

\* The stored delivery rows with id n: one row, or none after a cascade.
RowById(n) == {row \in deliveries : row.id = n}

\* The last triggerWebhooks call of request q.
LastCall(q) == q.triggers[Len(q.triggers)]

\* What holds of a fan-out in every state.
C8_State ==
    \A r \in AllSlots :
        LET q == reqs[r] IN
        (q.kind = "status" /\ q.triggers # <<>>) =>
            LET c == LastCall(q)
                live == {s \in Subscribed(c.subsSeen, c.event) : FindSub(s.id) # {}}
            IN /\ ~c.returned =>
                    \A s \in live :
                        Cardinality({d \in DispatchesOf(r) : d.subscription.id = s.id}) = 1
               /\ \A d \in DispatchesOf(r) :
                    (d.pc = "saved" /\ FindSub(d.subscription.id) # {}) =>
                        /\ Cardinality(RowById(d.recordId)) = 1
                        /\ \A row \in RowById(d.recordId) :
                              /\ row.subscriptionId = d.subscription.id
                              /\ row.success = Is2xx(d.got)
                              /\ d.got.kind = "response" => row.statusCode = d.got.status
               /\ (c.returned /\ \A d \in DispatchesOf(r) : ~InFlight(d)) =>
                    \A s \in live :
                        Cardinality({row \in deliveries \ c.rowsBefore :
                                        row.subscriptionId = s.id}) = 1

\* A call in flight stays or moves on, and a row goes only with its subscription.
C8_Step ==
    /\ \A d \in dispatches :
          InFlight(d) =>
              \E e \in dispatches' :
                  /\ e.owner = d.owner
                  /\ e.subscription = d.subscription
                  /\ e.payload = d.payload
                  /\ e = d \/ (d.pc = "posting" /\ e.pc = "saving")
                           \/ (d.pc = "saving" /\ e.pc \in {"saved", "rejected"})
    /\ \A row \in deliveries :
          row \in deliveries' \/ ~\E s \in subs' : s.id = row.subscriptionId

\* C8: within one fan-out the calls are independent: whatever one delivery
\* comes to (a non-2xx answer, a refused or timed-out connection), every
\* other matching subscription keeps its own call, that call is never
\* dropped or held back, its row is never taken back, and once no call is
\* running each matching subscription that still exists has exactly one row
\* of the fan-out, with the outcome of its own endpoint.
C8_IndependentDeliveries == []C8_State /\ [][C8_Step]_vars

\* A fan-out over two subscriptions has returned: the first endpoint timed
\* out and has its failed row, the second answered 200 and has its own.
C8_Witness ==
    \E r \in AllSlots :
        /\ reqs[r].kind = "status" /\ reqs[r].triggers # <<>>
        /\ LastCall(reqs[r]).returned
        /\ \E a \in deliveries, b \in deliveries :
              /\ a.subscriptionId = 1 /\ ~a.success /\ a.statusCode = NullCode
              /\ a.responseBody = <<"connect ETIMEDOUT">>
              /\ b.subscriptionId = 2 /\ b.success /\ b.statusCode = 200
              /\ a.id < b.id

\* C9: when a triggerWebhooks call returns, by resolving or by failing, none
\* of the calls it started is still in flight and none has ended without its
\* row: there is one row per matching subscription.
C9_ReturnsAfterAllRecorded ==
    \A r \in AllSlots : \A i \in 1..Len(reqs[r].triggers) :
        LET c == reqs[r].triggers[i] IN
        c.returned =>
            /\ c.inFlightAtReturn = {}
            /\ c.unrecorded = {}

\* The text the catch block has at hand for failure o.
FailureText(o) ==
    IF o.hasResponse /\ o.data.type = "string" THEN o.data.text
    ELSE IF o.hasResponse /\ o.data.type = "object" THEN <<"{">> \o o.data.text \o <<"}">>
    ELSE IF o.kind \in {"axios", "error"} THEN o.message
    ELSE <<"Unknown webhook delivery error">>

C11_SuccessHas2xx ==
    \A row \in deliveries :
        row.success => (row.statusCode # NullCode /\ row.statusCode >= 200 /\ row.statusCode < 300)

\* Successful rows of all three paths are stored: a test send answered 299,
\* a fan-out row, and a retry answered 200.
C11_Witness ==
    /\ \E row \in deliveries :
          row.success /\ row.event = <<"test">> /\ row.attemptNumber = 1 /\ row.statusCode = 299
    /\ \E row \in deliveries :
          row.success /\ row.event = EventOf("PROCESSING") /\ row.attemptNumber = 1
    /\ \E row \in deliveries : row.success /\ row.attemptNumber = 2 /\ row.statusCode = 200

\* The calls of sendAndRecordDelivery that return or raise in this step,
\* each with what it has become.
Returning ==
    { <<d, e>> \in dispatches \X dispatches' :
        /\ d.pc = "saving" /\ e.pc \in {"saved", "rejected"}
        /\ e.owner = d.owner /\ e.subscription = d.subscription
        /\ e.payload = d.payload /\ e.attemptNumber = d.attemptNumber }

\* What a returning call leaves: one new row, the one it returns, with the
\* given attemptNumber, deliveredAt set, and the delivery's outcome in success.
AppendsItsRow(d, e) ==
    /\ e.pc = "saved"
    /\ Cardinality(deliveries' \ deliveries) = 1
    /\ deliveries \subseteq deliveries'
    /\ \A row \in deliveries' \ deliveries :
          /\ row.id = e.recordId
          /\ row.subscriptionId = d.subscription.id
          /\ row.attemptNumber = d.attemptNumber
          /\ row.deliveredAt = clock
          /\ row.success = Is2xx(d.got)

\* Every returning call appends its row; rows appear only so; no call raises.
C12_Returns == \A pair \in Returning : AppendsItsRow(pair[1], pair[2])
C12_Grows == deliveries' \subseteq deliveries \/ Returning # {}
C12_NoCallRaises == \A d \in dispatches : d.pc # "rejected"

\* C12: every call of sendAndRecordDelivery
\* appends exactly one row with the given attemptNumber and deliveredAt set,
\* and none raises: whatever the POST came to is only in success.
C12_EveryCallAppendsOneRow == []C12_NoCallRaises /\ [][C12_Returns /\ C12_Grows]_vars

\* No stored row changes, and the table changes by one fresh row or by the
\* loss of all rows of a subscription deleted in the same step.
C13_Step ==
    /\ \A row \in deliveries, kept \in deliveries' : kept.id = row.id => kept = row
    /\ \/ deliveries' = deliveries
       \/ \E row \in deliveries' \ deliveries :
             /\ deliveries' = deliveries \cup {row}
             /\ \A old \in deliveries : old.id # row.id
       \/ \E gone \in subs \ subs' :
             /\ ~\E s \in subs' : s.id = gone.id
             /\ deliveries' = {row \in deliveries : row.subscriptionId # gone.id}

\* C13: a delivery row is immutable: over fan-outs, test sends, retries and
\* subscription updates and deletes no field of a stored row ever changes,
\* and the table changes only by one appended row or by losing every row of
\* a subscription that is deleted in that step.
C13_RowsImmutable == [][C13_Step]_vars

\* A first send and its retry are stored side by side after their
\* subscription was updated.
C13_Witness ==
    /\ \E s \in subs : s.id = 1 /\ s.url = <<"https://new">> /\ ~s.isActive
    /\ \E a \in deliveries, b \in deliveries :
          /\ a.subscriptionId = 1 /\ b.subscriptionId = 1
          /\ a.attemptNumber = 1 /\ b.attemptNumber = 2
          /\ a.payload = b.payload /\ a.id < b.id

\* The row with the given id, as the response body of the request shows it.
Returned(q) == FindDelivery(q.delivery)

\* What a retry's new row shares with the row d it retries.
NextAttemptOf(new, d) ==
    /\ new.id # d.id
    /\ new.attemptNumber = d.attemptNumber + 1
    /\ new.payload = d.payload
    /\ new.subscriptionId = d.subscriptionId
    /\ new.event = d.event
    /\ new.orderId = d.orderId

\* While a retry waits for its send, stored rows only grow, and they grow
\* only in the step in which its one send stores its row, by that row.
C14_RetryStep ==
    \A r \in AllSlots :
        (reqs[r].kind = "retry" /\ reqs[r].pc = "sending") =>
            /\ deliveries \subseteq deliveries'
            /\ Cardinality(DispatchesOf(r)) = 1
            /\ \A x \in DispatchesOf(r) :
                  IF x.pc = "saving" /\ x \notin dispatches'
                  THEN \E new \in deliveries' \ deliveries, d \in FindDelivery(reqs[r].id) :
                          /\ deliveries' = deliveries \cup {new}
                          /\ NextAttemptOf(new, d)
                          /\ \E y \in dispatches' : y.owner = r /\ y.recordId = new.id
                  ELSE deliveries' = deliveries
            /\ reqs'[r].pc = "done" =>
                  /\ reqs'[r].code = 201
                  /\ \E x \in DispatchesOf(r) :
                        x.pc = "saved" /\ reqs'[r].delivery = x.recordId

\* A retry that has answered has answered 201 with the new row, next to the
\* row it retried; only a retry that found no row answers otherwise.
C14_RetryAnswered ==
    \A r \in AllSlots :
        (reqs[r].kind = "retry" /\ reqs[r].pc = "done") =>
            IF FindDelivery(reqs[r].id) = {}
            THEN reqs[r].code = 404
            ELSE /\ reqs[r].code = 201
                 /\ Cardinality(Returned(reqs[r])) = 1
                 /\ \A new \in Returned(reqs[r]), d \in FindDelivery(reqs[r].id) :
                       NextAttemptOf(new, d) /\ new.id = nextDeliveryId - 1

\* C14: a retry of a stored delivery d whose subscription exists creates
\* exactly one new row r, with attemptNumber d.attemptNumber + 1, the payload
\* of d as it is stored, and the subscriptionId, event and orderId of d; it
\* answers with r, and d and every other row are stored as before.
C14_RetryAddsNextAttempt == []C14_RetryAnswered /\ [][C14_RetryStep]_vars

\* The retry of a retry has answered: a third attempt of a test send.
C14_Witness ==
    \E r \in AllSlots :
        /\ reqs[r].kind = "retry" /\ reqs[r].pc = "done" /\ reqs[r].code = 201
        /\ \E new \in Returned(reqs[r]) :
              new.attemptNumber = 3 /\ new.event = <<"test">> /\ new.payload.timestamp = 0

\* A retry that found no row is answered 404 and owns no send.
C15_UnknownAnswered ==
    \A r \in AllSlots :
        (reqs[r].kind = "retry" /\ reqs[r].pc = "done" /\ reqs[r].code = 404) =>
            DispatchesOf(r) = {}

\* The step that starts a retry of an id no stored delivery has.
C15_UnknownStep ==
    \A r \in AllSlots :
        (reqs[r].pc = "idle" /\ reqs'[r].kind = "retry"
            /\ FindDelivery(reqs'[r].id) = {}) =>
            /\ reqs'[r].pc = "done"
            /\ reqs'[r].code = 404
            /\ reqs'[r].error = <<"Webhook delivery not found">>
            /\ dispatches' = dispatches
            /\ UNCHANGED storeVars

\* C15: a retry of an id that no stored delivery has answers 404 with
\* "Webhook delivery not found", starts no HTTP request and writes nothing:
\* the step leaves every stored entity and every send in flight as it was.
C15_RetryUnknownChangesNothing == []C15_UnknownAnswered /\ [][C15_UnknownStep]_vars

\* A retry of an id nobody has was answered while deliveries were stored.
C15_Witness ==
    \E r \in AllSlots :
        /\ reqs[r].kind = "retry" /\ reqs[r].pc = "done" /\ reqs[r].code = 404
        /\ reqs[r].error = <<"Webhook delivery not found">>
        /\ deliveries # {}
        /\ \A row \in deliveries : row.id < reqs[r].id

\* The lineage of a stored row: the first send of a payload to a subscription
\* and the rows made by retrying it or its retries.  A retry sends the stored
\* payload, timestamp included, to the same subscription, and no two first
\* sends to one subscription share a timestamp.
Lineage(row) ==
    {x \in deliveries : x.subscriptionId = row.subscriptionId /\ x.payload = row.payload}

\* C16: the attempt numbers of a lineage are exactly 1, 2, ..., n for its n
\* rows (the first send and one row per retry), each occurring once.
C16_LineageCountsAttempts ==
    \A row \in deliveries :
        /\ {x.attemptNumber : x \in Lineage(row)} = 1..Cardinality(Lineage(row))
        /\ \A x \in Lineage(row) : x.attemptNumber = row.attemptNumber => x = row

\* Every stored delivery references a stored subscription, under an id that
\* was given out.
C17_RowsHaveSubscription ==
    \A row \in deliveries :
        FindSub(row.subscriptionId) # {} /\ row.id < nextDeliveryId

\* A DELETE answered 204 leaves neither the subscription nor a delivery of it
\* and touches no other row; ids are given out once; and a retry that names
\* an id given out earlier whose row is gone is answered 404.
C17_DeleteStep ==
    /\ nextDeliveryId' >= nextDeliveryId
    /\ \A r \in AllSlots :
          /\ (reqs[r].pc = "idle" /\ reqs'[r].kind = "deleteWebhook"
                /\ reqs'[r].code = 204) =>
                /\ FindSub(reqs'[r].id) # {}
                /\ \A sub \in subs' : sub.id # reqs'[r].id
                /\ deliveries' = {row \in deliveries : row.subscriptionId # reqs'[r].id}
          /\ (reqs[r].pc = "idle" /\ reqs'[r].kind = "retry"
                /\ reqs'[r].id \in 1..(nextDeliveryId - 1)
                /\ FindDelivery(reqs'[r].id) = {}) =>
                /\ reqs'[r].code = 404
                /\ dispatches' = dispatches

\* C17: deleting a subscription deletes its delivery history with it: every
\* stored delivery references a stored subscription, a DELETE leaves no
\* delivery of its subscription, and a retry of a former delivery id of it is
\* answered 404.
C17_DeleteCascades == []C17_RowsHaveSubscription /\ [][C17_DeleteStep]_vars

\* A retry of delivery 1 was answered 404 after the subscription that owned
\* it was deleted, while the deliveries of another subscription are stored.
C17_Witness ==
    /\ \E r \in AllSlots :
          /\ reqs[r].kind = "retry" /\ reqs[r].pc = "done" /\ reqs[r].code = 404
          /\ reqs[r].id = 1
    /\ nextDeliveryId > 2
    /\ deliveries # {}
    /\ \E id \in 1..3 : FindSub(id) = {}

\* The events list of a stored subscription, as a read of the row returns it.
EventsOf(sub) == stringToSimpleArray(sub.events)

\* The body of request q supplies an empty or blank secret, or an empty
\* events list.
EmptySecretOrEvents(q) ==
    \/ q.body.secret = <<>>
    \/ q.body.secret # Undef /\ q.body.secret # Null /\ Trim(q.body.secret) = <<>>
    \/ q.body.events = <<>>

\* C18: every stored subscription has a non-empty secret and a non-empty
\* events list without a blank entry, and a create or update whose body
\* supplies an empty or blank secret or an empty events list is answered with
\* a client error.
C18_SecretAndEventsNeverEmpty ==
    /\ \A sub \in subs :
          /\ Trim(sub.secret) # <<>>
          /\ Len(EventsOf(sub)) > 0
          /\ \A i \in 1..Len(EventsOf(sub)) : Trim(EventsOf(sub)[i]) # <<>>
    /\ \A r \in AllSlots :
          (reqs[r].kind \in {"createWebhook", "updateWebhook"} /\ reqs[r].pc = "done"
                /\ EmptySecretOrEvents(reqs[r])) =>
             reqs[r].code \in 400..499

\* Request r is answered 400 or 404 in this step.
RejectedNow(r) == reqs'[r].code \in {400, 404} /\ reqs[r].code \notin {400, 404}

\* C19: a request answered with NotFound, InvalidTransition or
\* ValidationError (404 or 400) is answered before its handler has written
\* anything: the step that rejects it starts from a free slot and leaves every
\* stored entity as it was.
C19_RejectionsWriteNothing ==
    [][\A r \in AllSlots :
          RejectedNow(r) => (reqs[r].pc = "idle" /\ UNCHANGED storeVars)]_vars

\* A PUT whose body carried a valid url, different from the stored one, and a
\* blank secret was answered 400, and the stored url is the old one.
C19_Witness ==
    \E r \in AllSlots :
        /\ reqs[r].kind = "updateWebhook" /\ reqs[r].pc = "done" /\ reqs[r].code = 400
        /\ reqs[r].error = <<"secret cannot be empty">>
        /\ reqs[r].body.url # Undef /\ isValidUrl(reqs[r].body.url)
        /\ \E sub \in FindSub(reqs[r].id) : sub.url # Trim(reqs[r].body.url)

\* The ids of the failed list, in its order.
FailedIds(q) == [i \in 1..Len(q.failed) |-> q.failed[i].id]

\* The entries of list at the positions of mark that carry tag, in order.
RECURSIVE Tagged(_, _, _)
Tagged(list, mark, tag) ==
    IF list = <<>> THEN <<>>
    ELSE (IF Head(mark) = tag THEN <<Head(list)>> ELSE <<>>)
            \o Tagged(Tail(list), Tail(mark), tag)

\* succeeded and the ids of failed split the first n positions of orderIds,
\* each keeping the order of the list.
SplitsPrefix(q, n) ==
    \E mark \in [1..n -> {"succeeded", "failed"}] :
        /\ Tagged(SubSeq(q.orderIds, 1, n), mark, "succeeded") = q.succeeded
        /\ Tagged(SubSeq(q.orderIds, 1, n), mark, "failed") = FailedIds(q)

\* The number of positions of the list whose outcome bulk request q has
\* reported.
Reported(q) == IF q.pc = "save" THEN q.idx - 2 ELSE q.idx - 1

\* A bulk request past its validation has reported each position it has
\* handled once, in the order of the list; a succeeded order is stored with
\* the target status, a failed one is missing or stored with the status X its
\* reason names, from which the target cannot be reached; and the request is
\* answered only with 200 and with every position reported.
C20_Partition ==
    \A r \in AllSlots :
        LET q == reqs[r] IN
        (q.kind = "bulk" /\ Len(q.orderIds) > 0 /\ isOrderStatus(q.status)) =>
            /\ SplitsPrefix(q, Reported(q))
            /\ \A i \in 1..Len(q.succeeded) :
                  FindOrder(q.succeeded[i]) # NoOrder
                    /\ FindOrder(q.succeeded[i]).status = q.status
            /\ \A i \in 1..Len(q.failed) :
                  LET order == FindOrder(q.failed[i].id) IN
                  IF order = NoOrder THEN q.failed[i].reason = <<"Order not found">>
                  ELSE /\ q.failed[i].reason =
                             <<"Invalid transition: ", order.status, " -> ", q.status>>
                       /\ ~canTransition(order.status, q.status)
            /\ q.pc = "done" => (q.code = 200 /\ Reported(q) = Len(q.orderIds))

\* One turn of the loop reports the position it handles: it goes on to the
\* save exactly if the order exists and its stored status can reach the
\* target.
C20_Turn ==
    \A r \in AllSlots :
        (reqs[r].pc = "bulk" /\ reqs[r].idx <= Len(reqs[r].orderIds)) =>
            LET order == FindOrder(reqs[r].orderIds[reqs[r].idx]) IN
            (reqs'[r].pc = "save")
                <=> (reqs'[r] # reqs[r] /\ order # NoOrder
                        /\ canTransition(order.status, reqs[r].status))

\* C20: POST /orders/bulk-status never aborts on one item's error; it handles
\* the whole list in order and reports every position exactly once, in
\* succeeded or in failed with its reason, each list in input order.
C20_BulkReturnsFullPartition == []C20_Partition /\ [][C20_Turn]_vars

\* What a fan-out row says, without its id and its timestamps, the order
\* named as the order of the bulk request.
Shape(row, orderId) ==
    [subscriptionId |-> row.subscriptionId, orderId |-> orderId, event |-> row.event,
     previousStatus |-> row.payload.data.previousStatus,
     status |-> row.payload.data.status,
     orderStatus |-> row.payload.data.order.status,
     statusCode |-> row.statusCode, responseBody |-> row.responseBody,
     success |-> row.success, attemptNumber |-> row.attemptNumber]

BulkRows == {row \in deliveries : row.orderId \in 1..2}
SingleRows == {row \in deliveries : row.orderId \in 3..4}

\* The bulk request is answered and the single request for the last entry of
\* its list is answered too.
TwinsDone ==
    \E b \in SendSlots :
        /\ reqs[b].kind = "bulk" /\ reqs[b].pc = "done"
        /\ clock = Len(reqs[b].orderIds) + 1
        /\ \A r \in TwinSlots : reqs[r].pc \in {"idle", "done"}

\* Both ways leave the same statuses, the same rows, and the fan-outs of
\* different orders in the same order.
C21_SameEffect ==
    TwinsDone =>
        /\ \A id \in 1..2 : orders[id].status = orders[Twin(id)].status
        /\ {Shape(row, row.orderId) : row \in BulkRows}
                = {Shape(row, row.orderId - 2) : row \in SingleRows}
        /\ Cardinality(BulkRows) = Cardinality(SingleRows)
        /\ \A a \in BulkRows, b \in BulkRows, c \in SingleRows, d \in SingleRows :
              (/\ Shape(a, a.orderId) = Shape(c, c.orderId - 2)
               /\ Shape(b, b.orderId) = Shape(d, d.orderId - 2)
               /\ a.orderId # b.orderId)
                  => (a.id < b.id <=> c.id < d.id)

\* The single request for entry k of the list succeeds exactly if the bulk
\* request reported that entry in succeeded: the id is in succeeded and k is
\* its first place in the list.
C21_SameVerdict ==
    \A r \in TwinSlots, b \in SendSlots :
        (reqs[r].pc # "done" /\ reqs'[r].pc = "done") =>
            LET ids == reqs[b].orderIds
                k == clock' - 1
            IN (reqs'[r].code = 200)
                  <=> (/\ \E i \in 1..Len(reqs[b].succeeded) : reqs[b].succeeded[i] = ids[k]
                       /\ \A j \in 1..(k - 1) : ids[j] # ids[k])

\* C21: a bulk status update leaves the same order statuses and the same
\* delivery rows (up to ids and timestamps), with the fan-outs in the same
\* order, as one PATCH /orders/:id/status per entry of its list, and an entry
\* is in succeeded exactly when its single request succeeds.
C21_BulkEqualsSingles == []C21_SameEffect /\ [][C21_SameVerdict]_vars

\* Both ways have updated order 2 and then order 1, each with its fan-out.
C21_Witness ==
    /\ TwinsDone
    /\ \E b \in SendSlots : reqs[b].orderIds = <<2, 1>> /\ reqs[b].succeeded = <<2, 1>>
    /\ \E a \in SingleRows, c \in SingleRows : a.orderId = 3 /\ c.orderId = 4 /\ c.id < a.id
    /\ \E a \in BulkRows : a.orderId = 1 /\ a.success

\* C22: every status change (single or bulk), test send and retry that has
\* arrived is answered in the end, also when a subscriber accepts the
\* connection and never answers.
C22_EveryRequestCompletes ==
    \A r \in SendSlots : (reqs[r].pc # "idle") ~> (reqs[r].pc = "done")

\* The request of call d carries Content-Type and X-Webhook-Signature and no
\* other header; the signature is "sha256=" and the HMAC-SHA256, under the
\* secret of the subscription the request goes to, of the JSON text that is
\* the body; the body is the text of the payload of the call, an object of
\* event, orderId, data and timestamp.
SignedRequest(d) ==
    /\ d.request.url = d.subscription.url
    /\ DOMAIN d.request.headers = {"Content-Type", "X-Webhook-Signature"}
    /\ d.request.headers["Content-Type"] = [text |-> "application/json"]
    /\ d.request.headers["X-Webhook-Signature"] =
            [text |-> "sha256=", hex |-> createHmac(d.subscription.secret, d.request.body)]
    /\ d.request.body = PayloadJSON(d.payload)
    /\ DOMAIN d.payload = {"event", "orderId", "data", "timestamp"}
    /\ d.payload.event # d.subscription.secret

\* C23: every outbound request (fan-out, test send, retry) carries
\* X-Webhook-Signature: sha256=<signPayload(p, s)> with p the payload that is
\* its body and that is stored on the delivery row, and s the secret of the
\* subscription it is sent to; the secret is in no header and not in the body.
C23_RequestsAreSigned ==
    \A d \in dispatches :
        /\ SignedRequest(d)
        /\ d.pc = "saved" =>
              \A row \in RowById(d.recordId) : d.request.body = PayloadJSON(row.payload)

\* A retry is in flight, signed with the secret its subscription was given
\* after the first send, and a row of a test send is stored.
C23_Witness ==
    /\ \E d \in dispatches :
          /\ d.attemptNumber = 2 /\ d.pc = "posting"
          /\ d.subscription.secret = <<"k9">>
          /\ d.request.headers["X-Webhook-Signature"].hex.key = <<"k9">>
    /\ \E row \in deliveries : row.event = <<"test">>

\* The sum of the lineTotal of the lines of an order.
RECURSIVE LinesTotal(_)
LinesTotal(items) ==
    IF items = <<>> THEN 0 ELSE items[1].lineTotal + LinesTotal(Tail(items))

\* Every order POST /orders has created (the seeded orders are 1 and 2) has
\* lines with unitPrice the product's price and lineTotal = unitPrice x
\* quantity, and totalAmount the sum of its lines.
C24_TotalsAddUp ==
    \A id \in 3..Len(orders) :
        /\ Len(orders[id].items) > 0
        /\ \A i \in 1..Len(orders[id].items) :
              LET item == orders[id].items[i] IN
              /\ item.productId \in DOMAIN Products
              /\ item.unitPrice = Products[item.productId].price
              /\ item.lineTotal = item.unitPrice * item.quantity
        /\ orders[id].totalAmount = LinesTotal(orders[id].items)

\* An order is created PENDING, and no request changes the items or the
\* totalAmount of a stored order.
C24_Step ==
    /\ Len(orders') >= Len(orders)
    /\ \A id \in (Len(orders) + 1)..Len(orders') : orders'[id].status = "PENDING"
    /\ \A id \in 1..Len(orders) :
          /\ orders'[id].items = orders[id].items
          /\ orders'[id].totalAmount = orders[id].totalAmount

\* C24: every order created by POST /orders is created PENDING with
\* lineTotal = unitPrice x quantity on each line, unitPrice the product's
\* price, and totalAmount the sum of its lines; notes updates, status changes
\* and bulk status changes leave items and totalAmount as they are.
C24_OrderTotals == []C24_TotalsAddUp /\ [][C24_Step]_vars

\* An order of two lines, 3 x 29.99 and 75 x 89.99, has been created and has
\* then been cancelled.
C24_Witness ==
    /\ Len(orders) = 3
    /\ orders[3].totalAmount = 3 * 2999 + 75 * 8999
    /\ Len(orders[3].items) = 2
    /\ orders[3].status = "CANCELLED"

\* PATCH /orders/:id request q changes the status: its body carries a status
\* other than the one the order had when it was loaded.
ChangesStatus(q) == q.status # UndefStatus /\ q.status # q.previousStatus

C26_State ==
    \A r \in AllSlots :
        LET q == reqs[r] IN
        q.kind = "test" =>
            /\ q.pc = "sending" =>
                  /\ Cardinality(DispatchesOf(r)) = 1
                  /\ \A d \in DispatchesOf(r) :
                        /\ d.subscription \in FindSub(q.id)
                        /\ d.attemptNumber = 1
                        /\ d.payload.event = <<"test">> /\ d.payload.orderId = 0
                        /\ SignedRequest(d)
                        /\ d.pc # "posting" => d.outcome = ServiceOutcome(d.got)
            /\ q.pc = "done" =>
                  IF FindSub(q.id) = {}
                  THEN q.code = 404 /\ DispatchesOf(r) = {}
                  ELSE /\ q.code = 201
                       /\ Cardinality(Returned(q)) = 1
                       /\ \A row \in Returned(q) :
                             /\ row.subscriptionId = q.id
                             /\ row.event = <<"test">> /\ row.orderId = 0
                             /\ row.attemptNumber = 1
                             /\ row.id = nextDeliveryId - 1

\* A step of a test send leaves orders and subscriptions alone; it stores
\* nothing when it answers 404, and otherwise stores one row, in the step in
\* which its call saves.
C26_Step ==
    \A r \in AllSlots :
        /\ (reqs[r].pc = "idle" /\ reqs'[r].kind = "test") =>
              /\ UNCHANGED storeVars
              /\ FindSub(reqs'[r].id) = {} => dispatches' = dispatches
        /\ (reqs[r].kind = "test" /\ reqs[r].pc = "sending") =>
              /\ orders' = orders /\ subs' = subs
              /\ \A d \in DispatchesOf(r) :
                    IF d.pc = "saving" /\ d \notin dispatches'
                    THEN \E row \in deliveries' \ deliveries :
                            deliveries' = deliveries \cup {row}
                    ELSE deliveries' = deliveries

\* C26: POST /webhooks/:id/test on an existing subscription sends one signed
\* request to it and stores one row with event "test", orderId 0 and
\* attemptNumber 1, reading the outcome as the fan-out does, whatever isActive
\* and the event list are; it touches no order and no subscription; for a
\* missing subscription it answers 404 and stores nothing.
C26_TestSendsOnce == []C26_State /\ [][C26_Step]_vars

\* A test send to the inactive subscription 3 has stored its row, a failed
\* delivery.
C26_Witness ==
    \E r \in AllSlots :
        /\ reqs[r].kind = "test" /\ reqs[r].pc = "done" /\ reqs[r].code = 201
        /\ reqs[r].id = 3
        /\ \E sub \in FindSub(3) : ~sub.isActive
        /\ \E row \in Returned(reqs[r]) : ~row.success /\ row.subscriptionId = 3

Callers(id, event) ==
    {r \in AllSlots : \E k \in DOMAIN reqs[r].triggers :
        reqs[r].triggers[k].orderId = id /\ reqs[r].triggers[k].event = event}

\* The first-attempt rows of one subscription for this order and event.
FirstRows(id, event, subId) ==
    {row \in deliveries : /\ row.orderId = id /\ row.event = event
                          /\ row.subscriptionId = subId /\ row.attemptNumber = 1}

C29_RetryStart ==
    \A r \in AllSlots :
        (reqs[r].pc = "idle" /\ reqs'[r].kind = "retry") =>
            IF \E row \in FindDelivery(reqs'[r].id) : FindSub(row.subscriptionId) # {}
            THEN /\ reqs'[r].pc = "sending"
                 /\ Cardinality(dispatches' \ dispatches) = 1
                 /\ \A d \in dispatches' \ dispatches, row \in FindDelivery(reqs'[r].id) :
                       /\ d.owner = r
                       /\ d.subscription \in FindSub(row.subscriptionId)
                       /\ d.payload = row.payload
                       /\ d.attemptNumber = row.attemptNumber + 1
                       /\ SignedRequest(d)
            ELSE /\ reqs'[r].pc = "done" /\ reqs'[r].code = 404
                 /\ dispatches' = dispatches

Repeats(q) ==
    {j \in 1..(q.idx - 1) : j <= Len(q.orderIds) /\
        \E i \in 1..(j - 1), k \in DOMAIN q.succeeded :
            q.orderIds[i] = q.orderIds[j] /\ q.succeeded[k] = q.orderIds[j]}

\* What holds of a bulk request in every state: an id is saved only if the
\* request has not updated it before; it has called the fan-out once per
\* updated id, in that order; and every repeat of an updated id that it has
\* passed is in failed with "Invalid transition: T -> T".
C30_State ==
    \A r \in AllSlots :
        LET q == reqs[r] IN
        (q.kind = "bulk" /\ q.pc # "done") \/ (q.kind = "bulk" /\ q.code = 200) =>
            /\ q.pc = "save" => \A k \in DOMAIN q.succeeded : q.succeeded[k] # q.order.id
            /\ \A a \in DOMAIN q.succeeded, b \in DOMAIN q.succeeded :
                  q.succeeded[a] = q.succeeded[b] => a = b
            /\ q.pc \in {"bulk", "done"} =>
                  /\ Len(q.triggers) = Len(q.succeeded)
                  /\ \A k \in DOMAIN q.triggers : q.triggers[k].orderId = q.succeeded[k]
                  /\ \A j \in Repeats(q) :
                        \E f \in DOMAIN q.failed :
                            q.failed[f] = [id |-> q.orderIds[j], reason |->
                                <<"Invalid transition: ", q.status, " -> ", q.status>>]
                  /\ \A k \in DOMAIN q.succeeded : FindOrder(q.succeeded[k]).status = q.status

\* The loop is strictly sequential: it moves to the next id only when nothing
\* it started for the ids before is still running, and no step of a request
\* past the whole list writes an order.
C30_Turn ==
    \A r \in AllSlots :
        (reqs[r].kind = "bulk" /\ reqs[r].pc = "bulk") =>
            /\ DispatchesOf(r) = {}
            /\ \A k \in DOMAIN reqs[r].triggers : reqs[r].triggers[k].returned
            /\ orders' = orders
            /\ reqs'[r].idx \in {reqs[r].idx, reqs[r].idx + 1}

\* C30: the bulk loop handles the ids strictly one after the other, so a
\* repeated id is judged against what the earlier position stored: the first
\* occurrence succeeds, the second is in failed with "Invalid transition:
\* T -> T", the id is in both lists, and the order is written and fanned out
\* once.
C30_BulkDuplicateIds == []C30_State /\ [][C30_Turn]_vars

\* A bulk request for <<1, 1>> has answered: order 1 is in succeeded once and
\* in failed once, after one fan-out.
C30_Witness ==
    \E r \in AllSlots :
        LET q == reqs[r] IN
        /\ q.kind = "bulk" /\ q.pc = "done" /\ q.code = 200
        /\ q.orderIds = <<1, 1>> /\ q.succeeded = <<1>>
        /\ Len(q.failed) = 1 /\ q.failed[1].id = 1
        /\ q.failed[1].reason = <<"Invalid transition: ", q.status, " -> ", q.status>>
        /\ Len(q.triggers) = 1
        /\ FindOrder(1).status = q.status

====
